---- MODULE Spec2Model ----
(***************************************************************************)
(* Model of obsidian-vault-mcp: the in-memory vault index (VaultIndex),    *)
(* the write operations of VaultReader, the section merge of               *)
(* update_daily_note, and the task statistics of TaskParser.               *)
(*                                                                         *)
(* Strings are abstracted to the structure the code looks at:              *)
(*  - a section text is [norm, ws]: norm names the text after whitespace   *)
(*    normalisation (' '.join(content.split())), ws the shape of its       *)
(*    whitespace runs; two texts are the same bytes iff both fields agree; *)
(*  - a token of the generated_sections line is [q, v]: v the name or      *)
(*    fingerprint, q whether it is written inside single quotes, so        *)
(*    "agenda" and "'agenda'" are different Python strings;                *)
(*  - a Python dict is a sequence of <<key, value>> pairs with unique      *)
(*    keys, in insertion order.                                            *)
(***************************************************************************)
EXTENDS Integers, Sequences, FiniteSets, TLC

VARIABLES
    dailyFile,      \* the daily note on disk: NoFile or a file record
    dailyIndexed,   \* index.notes_by_path[note_path]: NoNote or a Note
    res,            \* what the last operation on the daily note returned
    lastArgs,       \* arguments of the update_daily_note call that was the last step, or None
    written,        \* per section: fingerprint of the content update_daily_note last wrote into it
    edited,         \* per section: a human changed its text away from what was last written
    tree,           \* the vault on disk: path -> file or NoFile
    notes,          \* VaultIndex.notes: lower-cased title -> Note or NoNote
    notes_by_path,  \* VaultIndex.notes_by_path: path -> Note or NoNote
    ret,            \* what the last index or create operation returned or raised
    wtarget,        \* the file a write routine is writing: NoFile or its data
    wtemp,          \* the temporary file beside it: NoFile or its data
    wpc,            \* the write routine in progress and the step it is at
    tasks,          \* the list of Task objects handed to calculate_stats
    now,            \* datetime.now(), in ticks
    stats,          \* the TaskStats of the last calculate_stats call, or NoStats
    qnotes,         \* VaultIndex.notes as a Python dict, in insertion order
    qnotes_by_path, \* VaultIndex.notes_by_path as a Python dict
    max_search_results, \* config.max_search_results
    qret,           \* what the last listing or statistics call returned
    pcontent,       \* the markdown content handed to parse_tasks, line by line
    ptasks,         \* the list parse_tasks returned for it, or NotParsed
    pheader,        \* lines of the note file before its content: the metadata header
    htext,          \* the text of a section, character by character
    hdigest         \* the fingerprint last computed for it, and after which change

mergeVars == <<dailyFile, dailyIndexed, res, lastArgs, written, edited>>

indexVars == <<tree, notes, notes_by_path, ret>>

writeVars == <<wtarget, wtemp, wpc>>

statsVars == <<tasks, now, stats>>

queryVars == <<qnotes, qnotes_by_path, max_search_results, qret>>

parseVars == <<pcontent, ptasks, pheader>>

hashVars == <<htext, hdigest>>

vars == <<dailyFile, dailyIndexed, res, lastArgs, written, edited,
          tree, notes, notes_by_path, ret, wtarget, wtemp, wpc,
          tasks, now, stats, qnotes, qnotes_by_path, max_search_results, qret,
          pcontent, ptasks, pheader, htext, hdigest>>

\* Each specification below uses one group of variables; the variables of
\* the other groups stay at Unused in it.
Unused == <<>>

IdleMerge ==
    /\ dailyFile = Unused /\ dailyIndexed = Unused /\ res = Unused
    /\ lastArgs = Unused /\ written = Unused /\ edited = Unused

IdleIndex ==
    /\ tree = Unused /\ notes = Unused /\ notes_by_path = Unused /\ ret = Unused

IdleWrite ==
    /\ wtarget = Unused /\ wtemp = Unused /\ wpc = Unused

IdleStats ==
    /\ tasks = Unused /\ now = Unused /\ stats = Unused

IdleQuery ==
    /\ qnotes = Unused /\ qnotes_by_path = Unused
    /\ max_search_results = Unused /\ qret = Unused

IdleParse ==
    /\ pcontent = Unused /\ ptasks = Unused /\ pheader = Unused

IdleHash ==
    /\ htext = Unused /\ hdigest = Unused

OnlyMerge == IdleIndex /\ IdleWrite /\ IdleStats /\ IdleQuery /\ IdleParse /\ IdleHash

exceptMerge == <<indexVars, writeVars, statsVars, queryVars, parseVars, hashVars>>

OnlyIndex == IdleMerge /\ IdleWrite /\ IdleStats /\ IdleQuery /\ IdleParse /\ IdleHash

exceptIndex == <<mergeVars, writeVars, statsVars, queryVars, parseVars, hashVars>>

OnlyWrite == IdleMerge /\ IdleIndex /\ IdleStats /\ IdleQuery /\ IdleParse /\ IdleHash

exceptWrite == <<mergeVars, indexVars, statsVars, queryVars, parseVars, hashVars>>

OnlyStats == IdleMerge /\ IdleIndex /\ IdleWrite /\ IdleQuery /\ IdleParse /\ IdleHash

exceptStats == <<mergeVars, indexVars, writeVars, queryVars, parseVars, hashVars>>

OnlyQuery == IdleMerge /\ IdleIndex /\ IdleWrite /\ IdleStats /\ IdleParse /\ IdleHash

exceptQuery == <<mergeVars, indexVars, writeVars, statsVars, parseVars, hashVars>>

OnlyParse == IdleMerge /\ IdleIndex /\ IdleWrite /\ IdleStats /\ IdleQuery /\ IdleHash

exceptParse == <<mergeVars, indexVars, writeVars, statsVars, queryVars, hashVars>>

OnlyHash == IdleMerge /\ IdleIndex /\ IdleWrite /\ IdleStats /\ IdleQuery /\ IdleParse

exceptHash == <<mergeVars, indexVars, writeVars, statsVars, queryVars, parseVars>>

----------------------------------------------------------------------------
(* Bounds of the model *)

MaxNorm == 2        \* distinct normalised section texts
MaxWs == 1          \* whitespace shapes per normalised text, beyond the canonical one
MaxFiles == 2       \* files in the vault tree at one time
MaxChunks == 2      \* chunks of a note body: the created content and the appended ones
MaxBlocks == 2      \* blocks a file content is written in
MaxVersion == 4     \* write routines entered in one run
MaxTasks == 3       \* tasks in the list handed to calculate_stats
TicksPerDay == 2    \* instants of one day the clock can show
MaxNotes == 4       \* notes in the index the listings run on
MaxSearch == 2      \* largest max_search_results configured
MaxLines == 3       \* lines of the content handed to parse_tasks
MaxIndexed == 3     \* notes in the index the searches run on
MaxText == 4        \* characters of a section text that is fingerprinted

----------------------------------------------------------------------------
(* Section merge: data *)

Sections == {"agenda", "reading"}

Texts == [norm : 1..MaxNorm, ws : 0..MaxWs]

NoFile == [exists |-> FALSE]
NoNote == [note |-> FALSE]
None == [none |-> TRUE]
NoSection == [marker |-> "none"]     \* the start marker does not occur in the note
NoEnd == [marker |-> "start only"]   \* start marker without its end marker

Tok(q, v) == [q |-> q, v |-> v]

\* The empty string "" as a fingerprint value: the default of
\* stored_hashes.get(section_name, ""), which `if stored_hash` takes as absent.
Empty == Tok(FALSE, 0)

\* Python dict operations on a sequence of <<key, value>> pairs.
RECURSIVE DictGet(_, _, _)
DictGet(d, k, default) ==
    IF d = <<>> THEN default
    ELSE IF Head(d)[1] = k THEN Head(d)[2]
    ELSE DictGet(Tail(d), k, default)

DictHas(d, k) == \E i \in 1..Len(d) : d[i][1] = k

DictSet(d, k, v) ==
    IF DictHas(d, k)
    THEN [i \in 1..Len(d) |-> IF d[i][1] = k THEN <<k, v>> ELSE d[i]]
    ELSE Append(d, <<k, v>>)

\* dict(pairs): later pairs overwrite earlier ones, the first position is kept.
RECURSIVE DictOf(_, _)
DictOf(pairs, acc) ==
    IF pairs = <<>> THEN acc
    ELSE DictOf(Tail(pairs), DictSet(acc, Head(pairs)[1], Head(pairs)[2]))

\* hashlib.md5(...).hexdigest()[:12] of a normalised text: the fingerprint is
\* named by the normalised text it is the digest of.
Md5(normalized) == normalized.norm

Normalize(content) == [content EXCEPT !.ws = 0]

compute_section_hash(content) == Md5(Normalize(content))

\* body[s] is the region between the markers of s, or NoSection / NoEnd.
extract_section_content(file, section_name) ==
    IF file.body[section_name] \in {NoSection, NoEnd} THEN None
    ELSE file.body[section_name]

----------------------------------------------------------------------------
(* Section merge: the generated_sections header field *)

\* A file is [hdr, gsKind, gs, body]:
\*   hdr     the content starts with a '---' header block
\*   gsKind  "none": the header has no generated_sections field;
\*           "flow": the field is written as the code writes it,
\*                   generated_sections: {k: v, ...}, a YAML flow mapping;
\*           "str":  the field is a quoted YAML string holding "{k: v, ...}"
\*   gs      the <<key token, value token>> pairs of the field, in order
\*   body    section name -> text between its markers, NoSection or NoEnd

\* yaml.safe_load of a flow mapping: quotes are syntax, a repeated key keeps
\* its first position and its last value.
YamlFlowMapping(gs) ==
    DictOf([i \in 1..Len(gs) |-> <<gs[i][1].v, gs[i][2].v>>], <<>>)

\* str(dict) followed by strip('{}'), split(','), split(':', 1), strip():
\* the repr of a dict of strings puts every key and value in single quotes,
\* and the quotes stay in the parsed keys and values.
ReprPairs(d) ==
    [i \in 1..Len(d) |-> <<Tok(TRUE, d[i][1]), Tok(TRUE, d[i][2])>>]

\* frontmatter.loads(existing_content).metadata.get("generated_sections", "")
\* followed by _get_stored_hashes.
get_stored_hashes(file) ==
    IF ~file.hdr \/ file.gsKind = "none" THEN <<>>
    ELSE IF file.gsKind = "flow"
         THEN DictOf(ReprPairs(YamlFlowMapping(file.gs)), <<>>)
         ELSE DictOf(file.gs, <<>>)

\* hash_line replaces the field's line, or is added to the header; a file
\* that does not start with a header block is returned as it is.
update_frontmatter_hashes(file, hashes) ==
    IF ~file.hdr THEN file
    ELSE [file EXCEPT !.gsKind = "flow", !.gs = hashes]

\* The sections argument is an ordered dict: a sequence of [name, content].
SectionNames(sections) == {sections[i].name : i \in 1..Len(sections)}

ContentOf(sections, s) ==
    sections[CHOOSE i \in 1..Len(sections) : sections[i].name = s].content

\* new_hashes = dict(stored_hashes); new_hashes[section_name] = new_hash for
\* every requested section, before any test on the section.
RECURSIVE NewHashes(_, _)
NewHashes(sections, acc) ==
    IF sections = <<>> THEN acc
    ELSE NewHashes(Tail(sections),
                   DictSet(acc, Tok(FALSE, Head(sections).name),
                           Tok(FALSE, compute_section_hash(Head(sections).content))))

\* What the loop body does with one requested section.
SectionOutcome(file, stored_hashes, section_name, preserve_modified) ==
    LET current_content == extract_section_content(file, section_name)
        stored_hash == DictGet(stored_hashes, Tok(FALSE, section_name), Empty)
    IN  IF file.body[section_name] = NoSection THEN "new"
        ELSE IF current_content = None THEN "error"
        ELSE IF /\ preserve_modified
                /\ stored_hash # Empty
                /\ Tok(FALSE, compute_section_hash(current_content)) # stored_hash
             THEN "preserved"
        ELSE "updated"

\* The outcome of every requested section.
SectionOutcomes(file, sections, preserve_modified) ==
    LET stored_hashes == get_stored_hashes(file)
    IN  [s \in SectionNames(sections) |->
            SectionOutcome(file, stored_hashes, s, preserve_modified)]

\* The file update_daily_note writes back for an existing note: every section
\* found safe to update holds the new content between its markers, and the
\* header line is rewritten from new_hashes.
UpdatedFile(file, sections, preserve_modified) ==
    LET outcome == SectionOutcomes(file, sections, preserve_modified)
        new_hashes == NewHashes(sections, get_stored_hashes(file))
        updated_content ==
            [file EXCEPT !.body =
                [s \in Sections |->
                    IF s \in DOMAIN outcome /\ outcome[s] = "updated"
                    THEN ContentOf(sections, s)
                    ELSE file.body[s]]]
    IN  update_frontmatter_hashes(updated_content, new_hashes)

\* _format_section_hashes and template.format for a new note. A "marked"
\* template has a header with {generated_sections_frontmatter} and a wrapped
\* {section_<name>} for every requested section; a "plain" template has no
\* header and no markers.
Templates == {"marked", "plain"}

NoTemplate == ""    \* template=None, or an empty template: `not template`

CreatedFile(template, sections) ==
    IF template = "marked"
    THEN [hdr |-> TRUE,
          gsKind |-> IF sections = <<>> THEN "none" ELSE "flow",
          gs |-> NewHashes(sections, <<>>),
          body |-> [s \in Sections |->
                       IF s \in SectionNames(sections)
                       THEN ContentOf(sections, s) ELSE NoSection]]
    ELSE [hdr |-> FALSE, gsKind |-> "none", gs |-> <<>>,
          body |-> [s \in Sections |-> NoSection]]

\* Note(path, content).content: the text after the header block.
DailyNote(file) == IF file = NoFile THEN NoNote ELSE [content |-> file.body]

----------------------------------------------------------------------------
(* Section merge: operations *)

\* The sections arguments tried: ordered dicts of up to two entries; a dict
\* of two names lists "agenda" first.
SectionItems == [name : Sections, content : Texts]

SectionMaps ==
    {<<>>} \cup {<<a>> : a \in SectionItems}
           \cup {p \in SectionItems \X SectionItems :
                    p[1].name = "agenda" /\ p[2].name = "reading"}

NoResult(op) ==
    [op |-> op, preserve |-> FALSE, requested |-> {},
     updated |-> {}, preserved |-> {}, new |-> {}, errors |-> {}]

\* update_daily_note(date, sections, preserve_modified, create_if_missing, template)
\* for the one date whose note is dailyFile. The index is not touched.
update_daily_note(sections, preserve_modified, create_if_missing, template) ==
    /\ IF dailyFile = NoFile
       THEN IF ~create_if_missing \/ template = NoTemplate
            THEN \* FileNotFoundError / ValueError
                 /\ res' = NoResult("raised")
                 /\ UNCHANGED dailyFile
            ELSE \* note_path.write_text(formatted_content)
                 /\ dailyFile' = CreatedFile(template, sections)
                 /\ res' = [NoResult("created") EXCEPT
                               !.preserve = preserve_modified,
                               !.requested = SectionNames(sections),
                               !.updated = SectionNames(sections)]
       ELSE /\ dailyFile' = UpdatedFile(dailyFile, sections, preserve_modified)
            /\ LET outcome == SectionOutcomes(dailyFile, sections, preserve_modified)
                   names == DOMAIN outcome
               IN  res' = [op |-> "updated",
                           preserve |-> preserve_modified,
                           requested |-> names,
                           updated |-> {s \in names : outcome[s] = "updated"},
                           preserved |-> {s \in names : outcome[s] = "preserved"},
                           new |-> {s \in names : outcome[s] = "new"},
                           errors |-> {s \in names : outcome[s] = "error"}]
    /\ UNCHANGED <<dailyIndexed, exceptMerge>>

\* A person edits the text of a section in their editor.
HumanEdit(s, text) ==
    /\ dailyFile # NoFile
    /\ dailyFile.body[s] \in Texts
    /\ text # dailyFile.body[s]
    /\ dailyFile' = [dailyFile EXCEPT !.body[s] = text]
    /\ res' = NoResult("edited")
    /\ UNCHANGED <<dailyIndexed, exceptMerge>>

\* VaultIndex.refresh(): the note is parsed again from disk.
RefreshDaily ==
    /\ dailyIndexed' = DailyNote(dailyFile)
    /\ res' = NoResult("refreshed")
    /\ UNCHANGED <<dailyFile, exceptMerge>>

\* The notes the vault may hold when the server starts.
InitGs ==
    {<<>>} \cup {<<<<Tok(FALSE, s), Tok(FALSE, h)>>>> : s \in Sections, h \in 1..MaxNorm}
           \cup {<<<<Tok(FALSE, p[1]), Tok(FALSE, h)>>, <<Tok(FALSE, p[2]), Tok(FALSE, g)>>>> :
                    p \in {<<"agenda", "reading">>},
                    h \in 1..MaxNorm, g \in 1..MaxNorm}

InitFiles ==
    {f \in [hdr : BOOLEAN, gsKind : {"none", "flow", "str"}, gs : InitGs,
            body : [Sections -> Texts \cup {NoSection, NoEnd}]] :
        /\ (~f.hdr => f.gsKind = "none")
        /\ (f.gsKind = "none" => f.gs = <<>>)}

\* The fingerprint the header records for a section, as a YAML reader sees it.
HeaderFingerprint(file, s) ==
    IF file = NoFile \/ ~file.hdr \/ file.gsKind = "none" THEN 0
    ELSE DictGet(YamlFlowMapping(file.gs), s, 0)

\* The arguments update_daily_note ignores in a state are not varied there.
UpdateExisting(sections, preserve_modified) ==
    /\ dailyFile # NoFile
    /\ update_daily_note(sections, preserve_modified, FALSE, NoTemplate)

UpdateMissing(sections, create_if_missing, template) ==
    /\ dailyFile = NoFile
    /\ update_daily_note(sections, TRUE, create_if_missing, template)

GhostIdle ==
    /\ lastArgs = None
    /\ written = [s \in Sections |-> 0]
    /\ edited = [s \in Sections |-> FALSE]

MergeInit ==
    /\ dailyFile \in InitFiles \cup {NoFile}
    /\ dailyIndexed = NoNote
    /\ res = NoResult("init")
    /\ OnlyMerge
    /\ GhostIdle

ghostVars == <<lastArgs, written, edited>>

MergeUpdate ==
    /\ \E sections \in SectionMaps, preserve_modified \in BOOLEAN :
          UpdateExisting(sections, preserve_modified)
    /\ UNCHANGED ghostVars

MergeCreate ==
    /\ \E sections \in SectionMaps, create_if_missing \in BOOLEAN,
          template \in Templates \cup {NoTemplate} :
          UpdateMissing(sections, create_if_missing, template)
    /\ UNCHANGED ghostVars

MergeEdit ==
    /\ \E s \in Sections, text \in Texts : HumanEdit(s, text)
    /\ UNCHANGED ghostVars

MergeNext == MergeUpdate \/ MergeCreate \/ MergeEdit

\* The file alone, in every shape: the note was written to the vault after
\* the index was built, and update_daily_note neither reads nor writes the index.
SpecMerge == MergeInit /\ [][MergeNext]_vars

----------------------------------------------------------------------------
(* Section merge with its history: the last call's arguments, what
   update_daily_note last wrote into each section, the index entry *)

\* Notes whose header holds, as a quoted string, the fingerprint of the text
\* each section has.
PristineFiles ==
    {f \in InitFiles :
        /\ f.gsKind = "str"
        /\ Len(f.gs) = Cardinality(Sections)
        /\ \A s \in Sections :
              /\ f.body[s] \in Texts
              /\ f.body[s].ws = 0
              /\ HeaderFingerprint(f, s) = compute_section_hash(f.body[s])}

\* Two calls in a row: lastArgs remembers the call that was the last step.
TwiceInit ==
    /\ dailyFile \in PristineFiles \cup {NoFile}
    /\ dailyIndexed = NoNote
    /\ res = NoResult("init")
    /\ OnlyMerge
    /\ GhostIdle

TwiceUpdate ==
    \E sections \in SectionMaps, preserve_modified \in BOOLEAN :
        /\ UpdateExisting(sections, preserve_modified)
        /\ lastArgs' = [sections |-> sections, preserve |-> preserve_modified]
        /\ UNCHANGED <<written, edited>>

TwiceCreate ==
    \E sections \in SectionMaps, create_if_missing \in BOOLEAN,
       template \in Templates \cup {NoTemplate} :
        /\ UpdateMissing(sections, create_if_missing, template)
        /\ lastArgs' = None
        /\ UNCHANGED <<written, edited>>

TwiceEdit ==
    \E s \in Sections, text \in Texts :
        /\ HumanEdit(s, text)
        /\ lastArgs' = None
        /\ UNCHANGED <<written, edited>>

TwiceNext == TwiceUpdate \/ TwiceCreate \/ TwiceEdit

SpecMergeTwice == TwiceInit /\ [][TwiceNext]_vars

\* The same calls on notes written by hand as well: with or without a header
\* block, and without a generated_sections field.
AnyHeaderInit ==
    /\ dailyFile \in {f \in InitFiles : f.gsKind = "none"} \cup PristineFiles \cup {NoFile}
    /\ dailyIndexed = NoNote
    /\ res = NoResult("init")
    /\ OnlyMerge
    /\ GhostIdle

SpecMergeAnyHeader == AnyHeaderInit /\ [][TwiceNext]_vars

\* Human edits between calls: written and edited follow each section.
EditsInit ==
    /\ dailyFile \in PristineFiles \cup {NoFile}
    /\ dailyIndexed = NoNote
    /\ res = NoResult("init")
    /\ OnlyMerge
    /\ lastArgs = None
    /\ written = [s \in Sections |-> HeaderFingerprint(dailyFile, s)]
    /\ edited = [s \in Sections |-> FALSE]

TrackWritten ==
    /\ written' = [s \in Sections |->
          IF s \in res'.updated /\ dailyFile'.body[s] \in Texts
          THEN compute_section_hash(dailyFile'.body[s]) ELSE written[s]]
    /\ edited' = [s \in Sections |-> edited[s] /\ s \notin res'.updated]

EditsUpdate ==
    \E sections \in SectionMaps, preserve_modified \in BOOLEAN :
        /\ UpdateExisting(sections, preserve_modified)
        /\ TrackWritten
        /\ UNCHANGED lastArgs

EditsCreate ==
    \E sections \in SectionMaps, create_if_missing \in BOOLEAN,
       template \in Templates \cup {NoTemplate} :
        /\ UpdateMissing(sections, create_if_missing, template)
        /\ TrackWritten
        /\ UNCHANGED lastArgs

EditsEdit ==
    \E s \in Sections, text \in Texts :
        /\ HumanEdit(s, text)
        /\ edited' = [edited EXCEPT ![s] =
                         written[s] # 0 /\ compute_section_hash(text) # written[s]]
        /\ UNCHANGED <<written, lastArgs>>

EditsNext == EditsUpdate \/ EditsCreate \/ EditsEdit

SpecMergeEdits == EditsInit /\ [][EditsNext]_vars

\* The index entry of the note beside the file, under calls that name at
\* most one section.
SingleSectionMaps == {m \in SectionMaps : Len(m) <= 1}

IndexedInit ==
    /\ dailyFile \in PristineFiles \cup {NoFile}
    /\ dailyIndexed = DailyNote(dailyFile)
    /\ res = NoResult("init")
    /\ OnlyMerge
    /\ GhostIdle

IndexedUpdate ==
    /\ \E sections \in SingleSectionMaps, preserve_modified \in BOOLEAN :
          UpdateExisting(sections, preserve_modified)
    /\ UNCHANGED ghostVars

IndexedCreate ==
    /\ \E sections \in SingleSectionMaps, create_if_missing \in BOOLEAN,
          template \in Templates \cup {NoTemplate} :
          UpdateMissing(sections, create_if_missing, template)
    /\ UNCHANGED ghostVars

IndexedEdit ==
    /\ \E s \in Sections, text \in Texts : HumanEdit(s, text)
    /\ UNCHANGED ghostVars

IndexedRefresh == RefreshDaily /\ UNCHANGED ghostVars

IndexedNext == IndexedUpdate \/ IndexedCreate \/ IndexedEdit \/ IndexedRefresh

SpecMergeIndexed == IndexedInit /\ [][IndexedNext]_vars

----------------------------------------------------------------------------
(* Vault index and create operations: data *)

\* A title or file stem is a sequence of characters. The alphabet has an
\* upper-case letter, its lower-case form, characters _sanitize_filename
\* removes, and a space.
Forbidden == {"/", ":", "\\"}

lower(title) == [i \in DOMAIN title |-> IF title[i] = "P" THEN "p" ELSE title[i]]

RECURSIVE strip(_)
strip(str) ==
    IF str = <<>> THEN <<>>
    ELSE IF Head(str) = " " THEN strip(Tail(str))
    ELSE IF str[Len(str)] = " " THEN strip(SubSeq(str, 1, Len(str) - 1))
    ELSE str

\* re.sub(r'[<>:"/\\|?*]', '', title), then strip(); the titles tried hold
\* no run of spaces and stay under max_length.
sanitize_filename(title) ==
    strip(SelectSeq(title, LAMBDA ch : ch \notin Forbidden))

\* The folders of the configuration.
para_folders ==
    [inbox |-> "0 - INBOX", projects |-> "1 - Projects", areas |-> "2 - AREAS",
     resources |-> "3 - RESOURCES", archive |-> "4 - ARCHIVE"]

exclude_folders == {".obsidian", ".trash", "node_modules"}

daily_notes_folder == "Daily Notes"

\* date.strftime(daily_notes_format) for the one date tried.
DailyStem == <<"2025-01-01">>

\* A path below the vault: <folder>/<stem>.md
PathOf(folder, stem) == [folder |-> folder, stem |-> stem]

DailyPath == PathOf(daily_notes_folder, DailyStem)

TitleArgs == {<<"P">>, <<"p">>, <<"/">>, <<":", "P", " ">>}

Stems == {sanitize_filename(t) : t \in TitleArgs} \ {<<>>}

VaultPaths ==
    {PathOf(f, s) : f \in {para_folders.inbox, para_folders.projects}, s \in Stems}
        \cup {PathOf(".obsidian", <<"P">>), DailyPath}

\* The content argument of the create operations.
Contents == {"text"}

\* A file on disk: its body is the chunks of content written into it; an
\* unreadable file is one open(..., encoding="utf-8").read() fails on.
Unreadable == [exists |-> TRUE, readable |-> FALSE, body |-> <<>>]

TextFile(body) == [exists |-> TRUE, readable |-> TRUE, body |-> body]

is_excluded(file_path) == file_path.folder \in exclude_folders

\* parse_note(file_path): None for a missing or unreadable file; the title
\* is the file stem.
parse_note(file_path, file) ==
    IF file = NoFile \/ ~file.readable THEN NoNote
    ELSE [note |-> TRUE, path |-> file_path, title |-> file_path.stem,
          content |-> file.body]

LowerTitles == {lower(p.stem) : p \in VaultPaths}

EmptyIndex ==
    [notes |-> [t \in LowerTitles |-> NoNote],
     notes_by_path |-> [p \in VaultPaths |-> NoNote]]

\* IndexAdd keyed by the title as written, without lower().
IndexAddExactTitle(idx, note) ==
    [notes |-> IF note.title \in DOMAIN idx.notes
               THEN [idx.notes EXCEPT ![note.title] = note] ELSE idx.notes,
     notes_by_path |-> [idx.notes_by_path EXCEPT ![note.path] = note]]

\* self.index.notes[note.title.lower()] = note; notes_by_path[path] = note
IndexAdd(idx, note) ==
    [notes |-> [idx.notes EXCEPT ![lower(note.title)] = note],
     notes_by_path |-> [idx.notes_by_path EXCEPT ![note.path] = note]]

\* VaultIndex.get_note_by_title / get_note_by_path: dict.get on the two maps.
get_note_by_title(title) ==
    IF lower(title) \in DOMAIN notes THEN notes[lower(title)] ELSE NoNote

get_note_by_path(path) ==
    IF path \in DOMAIN notes_by_path THEN notes_by_path[path] ELSE NoNote

\* _build_index with a parse_note that lets the failure out: the scan ends
\* at the first document that cannot be read.
RECURSIVE build_index_abort(_, _, _)
build_index_abort(files, order, idx) ==
    IF order = <<>> THEN idx
    ELSE LET md_file == Head(order)
             note == parse_note(md_file, files[md_file])
         IN  IF is_excluded(md_file)
             THEN build_index_abort(files, Tail(order), idx)
             ELSE IF note = NoNote THEN idx
             ELSE build_index_abort(files, Tail(order), IndexAdd(idx, note))

\* The loop of _build_index over the files in the order rglob yields them.
RECURSIVE build_index(_, _, _)
build_index(files, order, idx) ==
    IF order = <<>> THEN idx
    ELSE LET md_file == Head(order)
             note == parse_note(md_file, files[md_file])
         IN  build_index(files, Tail(order),
                IF is_excluded(md_file) \/ note = NoNote THEN idx
                ELSE IndexAdd(idx, note))

\* vault_path.rglob("*.md") yields the files present, in an order the file
\* system chooses.
RECURSIVE Orders(_)
Orders(S) ==
    IF S = {} THEN {<<>>}
    ELSE UNION {{<<p>> \o o : o \in Orders(S \ {p})} : p \in S}

Present(files) == {p \in VaultPaths : files[p] # NoFile}

rglob(files) == Orders(Present(files))

----------------------------------------------------------------------------
(* Vault index and create operations: operations *)

Returned(op, raised, target, append) ==
    [op |-> op, raised |-> raised, target |-> target, append |-> append]

\* _write_note_atomic without the exists() test of its first lines.
write_note_atomic_overwrite(op, file_path, content) ==
    LET file == TextFile(<<content>>)
        idx == IndexAdd([notes |-> notes, notes_by_path |-> notes_by_path],
                        parse_note(file_path, file))
    IN  /\ tree' = [tree EXCEPT ![file_path] = file]
        /\ notes' = idx.notes
        /\ notes_by_path' = idx.notes_by_path
        /\ ret' = Returned(op, "none", file_path, FALSE)

\* _write_note_atomic(file_path, content, metadata)
write_note_atomic(op, file_path, content) ==
    IF tree[file_path] # NoFile
    THEN /\ ret' = Returned(op, "FileExistsError", file_path, FALSE)
         /\ UNCHANGED <<tree, notes, notes_by_path>>
    ELSE LET file == TextFile(<<content>>)
             idx == IndexAdd([notes |-> notes, notes_by_path |-> notes_by_path],
                             parse_note(file_path, file))
         IN  /\ tree' = [tree EXCEPT ![file_path] = file]
             /\ notes' = idx.notes
             /\ notes_by_path' = idx.notes_by_path
             /\ ret' = Returned(op, "none", file_path, FALSE)

\* _append_to_note without the lines that refresh the note in the index.
append_to_note_unindexed(op, file_path, content) ==
    IF ~tree[file_path].readable
    THEN /\ ret' = Returned(op, "UnicodeDecodeError", file_path, TRUE)
         /\ UNCHANGED <<tree, notes, notes_by_path>>
    ELSE /\ tree' = [tree EXCEPT ![file_path] =
                        TextFile(Append(tree[file_path].body, content))]
         /\ ret' = Returned(op, "none", file_path, TRUE)
         /\ UNCHANGED <<notes, notes_by_path>>

\* _append_to_note(file_path, content): reading an unreadable file raises
\* before anything is written.
append_to_note(op, file_path, content) ==
    IF ~tree[file_path].readable
    THEN /\ ret' = Returned(op, "UnicodeDecodeError", file_path, TRUE)
         /\ UNCHANGED <<tree, notes, notes_by_path>>
    ELSE LET file == TextFile(Append(tree[file_path].body, content))
             idx == IndexAdd([notes |-> notes, notes_by_path |-> notes_by_path],
                             parse_note(file_path, file))
         IN  /\ tree' = [tree EXCEPT ![file_path] = file]
             /\ notes' = idx.notes
             /\ notes_by_path' = idx.notes_by_path
             /\ ret' = Returned(op, "none", file_path, TRUE)

\* create_daily_note(content, date, tags, append_if_exists) for the one date.
create_daily_note(content, append_if_exists) ==
    /\ IF tree[DailyPath] # NoFile
       THEN IF append_if_exists
            THEN append_to_note("create_daily_note", DailyPath, content)
            ELSE /\ ret' = Returned("create_daily_note", "FileExistsError", DailyPath, FALSE)
                 /\ UNCHANGED <<tree, notes, notes_by_path>>
       ELSE write_note_atomic("create_daily_note", DailyPath, content)
    /\ UNCHANGED exceptIndex

\* create_inbox_note(title, content, tags)
create_inbox_note(title, content) ==
    /\ LET safe_title == sanitize_filename(title)
       IN  IF safe_title = <<>>
           THEN /\ ret' = Returned("create_inbox_note", "ValueError", None, FALSE)
                /\ UNCHANGED <<tree, notes, notes_by_path>>
           ELSE write_note_atomic("create_inbox_note",
                                  PathOf(para_folders.inbox, safe_title), content)
    /\ UNCHANGED exceptIndex

allowed_locations == {"projects", "areas", "resources", "archive"}

\* create_note(title, para_location, content) with no subfolder
create_note(title, para_location, content) ==
    /\ LET safe_title == sanitize_filename(title)
       IN  IF para_location \notin allowed_locations \/ safe_title = <<>>
           THEN /\ ret' = Returned("create_note", "ValueError", None, FALSE)
                /\ UNCHANGED <<tree, notes, notes_by_path>>
           ELSE LET file_path == PathOf(para_folders[para_location], safe_title)
                IN  IF tree[file_path] # NoFile
                    THEN /\ ret' = Returned("create_note", "FileExistsError", file_path, FALSE)
                         /\ UNCHANGED <<tree, notes, notes_by_path>>
                    ELSE write_note_atomic("create_note", file_path, content)
    /\ UNCHANGED exceptIndex

\* VaultIndex.refresh(): both maps are cleared and built again.
refresh(order) ==
    /\ LET idx == build_index(tree, order, EmptyIndex)
       IN  /\ notes' = idx.notes
           /\ notes_by_path' = idx.notes_by_path
    /\ ret' = Returned("refresh", "none", None, FALSE)
    /\ UNCHANGED <<tree, exceptIndex>>

\* Another program (the editor, a sync client) adds, replaces or removes a
\* file of the vault.
OutsideFiles == {Unreadable} \cup {TextFile(<<c>>) : c \in Contents}

OutsideChange(p, file) ==
    /\ file # tree[p]
    /\ Cardinality(Present([tree EXCEPT ![p] = file])) <= MaxFiles
    /\ tree' = [tree EXCEPT ![p] = file]
    /\ ret' = Returned("outside", "none", None, FALSE)
    /\ UNCHANGED <<notes, notes_by_path, exceptIndex>>

\* The vault when the server starts, and VaultIndex.__init__.
InitTrees ==
    {t \in [VaultPaths -> OutsideFiles \cup {NoFile}] :
        Cardinality(Present(t)) <= MaxFiles}

IndexInit ==
    /\ tree \in InitTrees
    /\ \E order \in rglob(tree) :
          LET idx == build_index(tree, order, EmptyIndex)
          IN  /\ notes = idx.notes
              /\ notes_by_path = idx.notes_by_path
    /\ ret = Returned("init", "none", None, FALSE)
    /\ OnlyIndex

IndexRefresh == \E order \in rglob(tree) : refresh(order)

IndexCreateDaily ==
    \E content \in Contents, append_if_exists \in BOOLEAN :
        /\ (tree[DailyPath] # NoFile /\ append_if_exists /\ tree[DailyPath].readable)
              => Len(tree[DailyPath].body) < MaxChunks
        /\ (tree[DailyPath] = NoFile) => Cardinality(Present(tree)) < MaxFiles
        /\ create_daily_note(content, append_if_exists)

RoomFor(folder, title) ==
    LET p == PathOf(folder, sanitize_filename(title))
    IN  (p \in VaultPaths /\ tree[p] = NoFile) => Cardinality(Present(tree)) < MaxFiles

IndexCreateInbox ==
    \E title \in TitleArgs, content \in Contents :
        /\ RoomFor(para_folders.inbox, title)
        /\ create_inbox_note(title, content)

ParaArgs == {"projects", "inbox"}

IndexCreateNote ==
    \E title \in TitleArgs, para_location \in ParaArgs, content \in Contents :
        /\ RoomFor(para_folders[para_location], title)
        /\ create_note(title, para_location, content)

IndexOutside ==
    \E p \in VaultPaths, file \in OutsideFiles \cup {NoFile} : OutsideChange(p, file)

IndexNext ==
    \/ IndexRefresh
    \/ IndexCreateDaily
    \/ IndexCreateInbox
    \/ IndexCreateNote
    \/ IndexOutside

SpecIndex == IndexInit /\ [][IndexNext]_vars

\* The index and the tree when the server alone touches the vault.
WritesNext ==
    \/ IndexRefresh
    \/ IndexCreateDaily
    \/ IndexCreateInbox
    \/ IndexCreateNote

SpecIndexWrites == IndexInit /\ [][WritesNext]_vars

----------------------------------------------------------------------------
(* Writing a note file, step by step *)

\* The data of a file is the sequence of blocks written into it so far; the
\* full content of version v is its MaxBlocks blocks in order.
Block(v, i) == [ver |-> v, blk |-> i]

FullContent(v) == [i \in 1..MaxBlocks |-> Block(v, i)]

FileWith(data) == [exists |-> TRUE, data |-> data]

\* The routines that write a note file, and whether they go through a
\* temporary file (tempfile.mkstemp and shutil.move) or open the target.
ViaTemp == {"_write_note_atomic", "_append_link_to_note", "update_daily_note (update)"}

Direct == {"_append_to_note", "update_daily_note (create)"}

\* _write_note_atomic and the create path of update_daily_note run when the
\* target does not exist, the other three on an existing note.
OnMissing == {"_write_note_atomic", "update_daily_note (create)"}

Routines == ViaTemp \cup Direct

WritePc(routine, step, prev, ver) ==
    [routine |-> routine, step |-> step, prev |-> prev, ver |-> ver]

\* A routine is entered with the content it is about to write (version ver);
\* prev is the target as the routine found it.
WriteCall(routine) ==
    /\ wpc.step \in {"idle", "done", "raised"}
    /\ (routine \in OnMissing) <=> (wtarget = NoFile)
    /\ wpc.ver < MaxVersion
    /\ wpc' = WritePc(routine, "called", wtarget, wpc.ver + 1)
    /\ UNCHANGED <<wtarget, wtemp, exceptWrite>>

\* tempfile.mkstemp(suffix=".md", dir=file_path.parent): an empty file.
mkstemp ==
    /\ wpc.step = "called" /\ wpc.routine \in ViaTemp
    /\ wtemp' = FileWith(<<>>)
    /\ wpc' = [wpc EXCEPT !.step = "writing"]
    /\ UNCHANGED <<wtarget, exceptWrite>>

\* open(file_path, "w") / Path.write_text: the target is created or cut to
\* length zero before the first byte is written.
open_w ==
    /\ wpc.step = "called" /\ wpc.routine \in Direct
    /\ wtarget' = FileWith(<<>>)
    /\ wpc' = [wpc EXCEPT !.step = "writing"]
    /\ UNCHANGED <<wtemp, exceptWrite>>

\* mkstemp or open raises: nothing was created.
OpenFails ==
    /\ wpc.step = "called"
    /\ wpc' = [wpc EXCEPT !.step = "raised"]
    /\ UNCHANGED <<wtarget, wtemp, exceptWrite>>

\* f.write(...): the content reaches the open file block by block.
write ==
    /\ wpc.step = "writing"
    /\ LET file == IF wpc.routine \in ViaTemp THEN wtemp ELSE wtarget
           data == Append(file.data, Block(wpc.ver, Len(file.data) + 1))
           last == Len(data) = MaxBlocks
       IN  IF wpc.routine \in ViaTemp
           THEN /\ wtemp' = FileWith(data)
                /\ wpc' = [wpc EXCEPT !.step = IF last THEN "written" ELSE "writing"]
                /\ UNCHANGED wtarget
           ELSE /\ wtarget' = FileWith(data)
                /\ wpc' = [wpc EXCEPT !.step = IF last THEN "done" ELSE "writing"]
                /\ UNCHANGED wtemp
    /\ UNCHANGED exceptWrite

\* The write raises (disk full, I/O error) before the next block: the
\* except clause of the temp-file routines runs, the others just raise.
WriteFails ==
    /\ wpc.step = "writing"
    /\ wpc' = [wpc EXCEPT !.step = IF wpc.routine \in ViaTemp THEN "cleanup" ELSE "raised"]
    /\ UNCHANGED <<wtarget, wtemp, exceptWrite>>

\* shutil.move(temp_path, file_path): a rename within one directory.
shutil_move ==
    /\ wpc.step = "written"
    /\ wtarget' = wtemp
    /\ wtemp' = NoFile
    /\ wpc' = [wpc EXCEPT !.step = "done"]
    /\ UNCHANGED exceptWrite

MoveFails ==
    /\ wpc.step = "written"
    /\ wpc' = [wpc EXCEPT !.step = "cleanup"]
    /\ UNCHANGED <<wtarget, wtemp, exceptWrite>>

\* except Exception: Path(temp_path).unlink(); raise
unlink ==
    /\ wpc.step = "cleanup"
    /\ wtemp' = NoFile
    /\ wpc' = [wpc EXCEPT !.step = "raised"]
    /\ UNCHANGED <<wtarget, exceptWrite>>

WriteInit ==
    /\ wtarget \in {NoFile, FileWith(FullContent(0))}
    /\ wtemp = NoFile
    /\ wpc = WritePc("none", "idle", wtarget, 0)
    /\ OnlyWrite

WriteBegin == \E routine \in Routines : WriteCall(routine)

WriteNext ==
    \/ WriteBegin
    \/ mkstemp
    \/ open_w
    \/ OpenFails
    \/ write
    \/ WriteFails
    \/ shutil_move
    \/ MoveFails
    \/ unlink

SpecWrite == WriteInit /\ [][WriteNext]_vars

----------------------------------------------------------------------------
(* Tasks and their statistics *)

\* Time is counted in ticks, TicksPerDay to the day, from midnight of the
\* day calculate_stats is called: day d starts at tick d * TicksPerDay and
\* datetime.now() is a tick of day 0. A date string is None, Day(d) for day
\* number d, or BadDate, a string of the shape dddd-dd-dd that names no
\* calendar day.
Day(d) == [day |-> d]

BadDate == [bad |-> TRUE]

IsDay(date) == "day" \in DOMAIN date

\* datetime.fromisoformat("YYYY-MM-DD"): midnight of that day.
fromisoformat(date) == date.day * TicksPerDay

timedelta(days) == days * TicksPerDay

\* Task: the fields the statistics read.
Task(completed, completion_date, due_date, priority, blocked) ==
    [completed |-> completed, completion_date |-> completion_date,
     due_date |-> due_date, priority |-> priority, blocked |-> blocked]

\* is_completed_in_range with the comparison turned round: completed days
\* ago or earlier.
is_completed_before_range(t, days, clock) ==
    IF ~t.completed \/ t.completion_date = None THEN FALSE
    ELSE IF ~IsDay(t.completion_date) THEN FALSE
    ELSE fromisoformat(t.completion_date) <= clock - timedelta(days)

\* Task.is_completed_in_range(days)
is_completed_in_range(t, days, clock) ==
    IF ~t.completed \/ t.completion_date = None THEN FALSE
    ELSE IF ~IsDay(t.completion_date) THEN FALSE
    ELSE fromisoformat(t.completion_date) >= clock - timedelta(days)

\* Task.is_due_soon(days)
is_due_soon(t, days, clock) ==
    IF t.due_date = None \/ t.completed THEN FALSE
    ELSE IF ~IsDay(t.due_date) THEN FALSE
    ELSE /\ clock <= fromisoformat(t.due_date)
         /\ fromisoformat(t.due_date) <= clock + timedelta(days)

\* is_overdue with the comparison turned round.
is_overdue_after(t, clock) ==
    IF t.due_date = None \/ t.completed THEN FALSE
    ELSE IF ~IsDay(t.due_date) THEN FALSE
    ELSE fromisoformat(t.due_date) > clock

\* Task.is_overdue()
is_overdue(t, clock) ==
    IF t.due_date = None \/ t.completed THEN FALSE
    ELSE IF ~IsDay(t.due_date) THEN FALSE
    ELSE fromisoformat(t.due_date) < clock

\* len([t for t in tasks if keep(t)])
Count(list, keep(_)) == Cardinality({i \in DOMAIN list : keep(list[i])})

\* TaskParser.calculate_stats(tasks, lookback_days): the counters of TaskStats.
calculate_stats(list, lookback_days, clock) ==
    [total_tasks |-> Len(list),
     completed |-> Count(list, LAMBDA t : t.completed /\ t.completion_date # None),
     active |-> Count(list, LAMBDA t : ~t.completed /\ ~t.blocked),
     blocked |-> Count(list, LAMBDA t : t.blocked /\ ~t.completed),
     overdue |-> Count(list, LAMBDA t : is_overdue(t, clock)),
     due_soon |-> Count(list, LAMBDA t : is_due_soon(t, lookback_days, clock)),
     completed_this_week |->
         Count(list, LAMBDA t : /\ t.completed /\ t.completion_date # None
                                /\ is_completed_in_range(t, 7, clock)),
     completed_this_month |->
         Count(list, LAMBDA t : /\ t.completed /\ t.completion_date # None
                                /\ is_completed_in_range(t, 30, clock)),
     high_priority |-> Count(list, LAMBDA t : t.priority = "high" /\ ~t.completed)]

\* The tasks tried: parse_tasks never yields a completed task without a
\* completion date.
CompletionDates == {Day(0 - 3), Day(0 - 8)}

DueDates == {None, Day(0 - 1), BadDate}

TaskArgs ==
    {Task(TRUE, c, None, "none", b) : c \in CompletionDates, b \in BOOLEAN}
        \cup {Task(FALSE, None, d, "none", b) : d \in DueDates, b \in BOOLEAN}

RECURSIVE ListsOf(_, _)
ListsOf(S, n) ==
    IF n = 0 THEN {<<>>}
    ELSE LET shorter == ListsOf(S, n - 1)
         IN  shorter \cup {Append(l, x) : l \in {m \in shorter : Len(m) = n - 1}, x \in S}

NoStats == [computed |-> FALSE]

StatsInit ==
    /\ tasks \in ListsOf(TaskArgs, MaxTasks)
    /\ now \in 0..(TicksPerDay - 1)
    /\ stats = NoStats
    /\ OnlyStats

LookbackArgs == {1, 7}

CalculateStats ==
    /\ \E lookback_days \in LookbackArgs :
          stats' = [computed |-> TRUE, lookback_days |-> lookback_days,
                    counts |-> calculate_stats(tasks, lookback_days, now)]
    /\ UNCHANGED <<tasks, now, exceptStats>>

\* The clock moves on within the day between two calls.
ClockTick ==
    /\ now + 1 < TicksPerDay
    /\ now' = now + 1
    /\ stats' = NoStats
    /\ UNCHANGED <<tasks, exceptStats>>

StatsNext == CalculateStats \/ ClockTick

SpecStats == StatsInit /\ [][StatsNext]_vars

\* Tasks with a due date round the day of the call: yesterday, the day
\* itself, tomorrow and the day after, besides none and a malformed one.
DueDays == {Day(0 - 1), Day(0), Day(1), Day(2)}

DueTaskArgs ==
    {Task(FALSE, None, d, "none", FALSE) : d \in DueDays \cup {None, BadDate}}
        \cup {Task(TRUE, Day(0 - 3), Day(0 - 1), "none", FALSE)}

DueInit ==
    /\ tasks \in ListsOf(DueTaskArgs, MaxTasks)
    /\ now \in 0..(TicksPerDay - 1)
    /\ stats = NoStats
    /\ OnlyStats

SpecDue == DueInit /\ [][StatsNext]_vars

----------------------------------------------------------------------------
(* Listing notes and folder task statistics *)

\* A vault-relative path is the sequence of its characters, as str(rel_path)
\* is; the title of a note is the stem of its path.
\* A prefix test by path segments: the prefix must end where a segment ends.
startswith_segment(str, prefix) ==
    \/ str = prefix
    \/ Len(prefix) < Len(str) /\ SubSeq(str, 1, Len(prefix) + 1) = prefix \o <<"/">>

startswith(str, prefix) ==
    Len(prefix) <= Len(str) /\ SubSeq(str, 1, Len(prefix)) = prefix

RECURSIVE StemOf(_)
StemOf(path) ==
    IF \E i \in DOMAIN path : path[i] = "/"
    THEN StemOf(Tail(path)) ELSE path

\* A line of a note body: a checklist line "- [c] ..." with the marks the
\* statistics read, or any other line.
TextLine == [kind |-> "text"]

CheckLine(checkbox, completion_date, due_date, blocked) ==
    [kind |-> "task", checkbox |-> checkbox, completion_date |-> completion_date,
     due_date |-> due_date, blocked |-> blocked]

\* parse_tasks without the reclassification of lines 141-143: the box alone
\* decides.
RECURSIVE parse_tasks_by_checkbox(_)
parse_tasks_by_checkbox(content) ==
    IF content = <<>> THEN <<>>
    ELSE LET line == Head(content)
         IN  IF line.kind = "task"
             THEN <<Task(line.checkbox \in {"x", "X"},
                         line.completion_date, line.due_date, "none", line.blocked)>>
                     \o parse_tasks_by_checkbox(Tail(content))
             ELSE parse_tasks_by_checkbox(Tail(content))

\* TaskParser.parse_tasks(content, source_file): one Task per checklist
\* line; a ticked box without a completion date is not completed.
RECURSIVE parse_tasks(_)
parse_tasks(content) ==
    IF content = <<>> THEN <<>>
    ELSE LET line == Head(content)
         IN  IF line.kind = "task"
             THEN <<Task(line.checkbox \in {"x", "X"} /\ line.completion_date # None,
                         line.completion_date, line.due_date, "none", line.blocked)>>
                     \o parse_tasks(Tail(content))
             ELSE parse_tasks(Tail(content))

\* The notes tried: four in folder A and one in folder B, each with a title
\* of its own. The body goes with the title.
QPaths ==
    {<<"A", "/", "p">>, <<"A", "/", "q">>, <<"A", "/", "r">>, <<"A", "/", "s">>,
     <<"B", "/", "t">>}

BodyOf(stem) ==
    CASE stem = <<"p">> -> <<CheckLine(" ", None, None, FALSE), TextLine>>
      [] stem = <<"q">> -> <<TextLine>>
      [] stem = <<"r">> -> <<CheckLine("x", Day(0 - 3), None, FALSE),
                             CheckLine(" ", None, Day(0 - 1), FALSE)>>
      [] stem = <<"s">> -> <<CheckLine(" ", None, None, TRUE)>>
      [] OTHER -> <<TextLine, CheckLine("X", None, None, FALSE)>>

CreatedArgs == {None, Day(2)}

QNote(path, created) ==
    [note |-> TRUE, path |-> path, title |-> StemOf(path), created |-> created,
     content |-> BodyOf(StemOf(path))]

\* Note.matches_criteria(created_after, created_before), para_location and
\* tags not given.
matches_criteria(note, created_after, created_before) ==
    IF note.created # None
    THEN /\ ~(created_after # None /\ note.created.day < created_after.day)
         /\ ~(created_before # None /\ note.created.day > created_before.day)
    ELSE TRUE

\* folder=None or "": `if folder:` is false for both.
NoFolder == <<>>

\* The loop of VaultIndex.list_notes over self.notes.values(), with its break.
RECURSIVE ListScan(_, _, _, _, _, _)
ListScan(values, folder, created_after, created_before, limit, results) ==
    IF values = <<>> THEN results
    ELSE LET note == Head(values)
             rest == Tail(values)
         IN  IF folder # NoFolder /\ ~startswith(note.path, folder)
             THEN ListScan(rest, folder, created_after, created_before, limit, results)
             ELSE IF matches_criteria(note, created_after, created_before)
             THEN IF Len(results) + 1 >= limit
                  THEN Append(results, note)
                  ELSE ListScan(rest, folder, created_after, created_before, limit,
                                Append(results, note))
             ELSE ListScan(rest, folder, created_after, created_before, limit, results)

\* key=lambda n: n.created if n.created else datetime.min
SortKey(note) == IF note.created # None THEN note.created.day ELSE 0 - 1

\* results.sort(key=..., reverse=True): stable, newest first.
RECURSIVE InsertNewestFirst(_, _)
InsertNewestFirst(sorted, note) ==
    IF sorted = <<>> THEN <<note>>
    ELSE IF SortKey(Head(sorted)) >= SortKey(note)
    THEN <<Head(sorted)>> \o InsertNewestFirst(Tail(sorted), note)
    ELSE <<note>> \o sorted

RECURSIVE SortNewestFirst(_, _)
SortNewestFirst(list, sorted) ==
    IF list = <<>> THEN sorted
    ELSE SortNewestFirst(Tail(list), InsertNewestFirst(sorted, Head(list)))

DictValues(d) == [i \in 1..Len(d) |-> d[i][2]]

\* VaultIndex.list_notes(folder, created_after, created_before, limit)
VaultIndex_list_notes(folder, created_after, created_before, limit) ==
    SortNewestFirst(
        ListScan(DictValues(qnotes), folder, created_after, created_before, limit, <<>>),
        <<>>)

Min(a, b) == IF a <= b THEN a ELSE b

Take(list, n) == SubSeq(list, 1, Min(n, Len(list)))

\* VaultReader.list_notes(folder, created_after, created_before, limit)
\* with no modified_after or modified_before.
VaultReader_list_notes(folder, created_after, created_before, limit) ==
    Take(VaultIndex_list_notes(folder, created_after, created_before,
                               Min(limit, max_search_results) * 3),
         limit)

\* path=None or "", title=None or "": `not path` and `not title` hold for both.
NotGiven == <<>>

\* read_note that looks the title up only when no path is given.
read_note_no_fallback(path, title) ==
    IF path = NotGiven /\ title = NotGiven
    THEN [raised |-> "ValueError"]
    ELSE IF path # NotGiven
    THEN DictGet(qnotes_by_path, path, NoNote)
    ELSE DictGet(qnotes, lower(title), NoNote)

\* VaultReader.read_note(path, title): the note (its to_dict), NoNote for
\* None, or the exception raised.
read_note(path, title) ==
    IF path = NotGiven /\ title = NotGiven
    THEN [raised |-> "ValueError"]
    ELSE LET by_path == IF path # NotGiven
                        THEN DictGet(qnotes_by_path, path, NoNote)
                        ELSE NoNote
         IN  IF by_path = NoNote /\ title # NotGiven
             THEN DictGet(qnotes, lower(title), NoNote)
             ELSE by_path

FolderStatsLimit == 1000

RECURSIVE AllTasks(_)
AllTasks(listed) ==
    IF listed = <<>> THEN <<>>
    ELSE LET note_data == read_note(Head(listed).path, NotGiven)
         IN  (IF note_data # NoNote /\ note_data.content # <<>>
              THEN parse_tasks(note_data.content) ELSE <<>>)
                 \o AllTasks(Tail(listed))

\* get_folder_task_stats(vault_reader, folder_path, lookback_days)
get_folder_task_stats(folder_path, lookback_days, clock) ==
    LET listed == VaultReader_list_notes(folder_path, None, None, FolderStatsLimit)
    IN  [op |-> "get_folder_task_stats",
         folder |-> folder_path,
         notes_scanned |-> Len(listed),
         stats |-> calculate_stats(AllTasks(listed), lookback_days, clock)]

\* _build_index on the files in walk order, the maps kept as Python dicts.
RECURSIVE QBuild(_, _)
QBuild(walk, idx) ==
    IF walk = <<>> THEN idx
    ELSE QBuild(Tail(walk),
                [notes |-> DictSet(idx.notes, lower(Head(walk).title), Head(walk)),
                 notes_by_path |-> DictSet(idx.notes_by_path, Head(walk).path, Head(walk))])

RECURSIVE Walks(_)
Walks(n) ==
    IF n = 0 THEN {<<>>}
    ELSE LET shorter == Walks(n - 1)
         IN  shorter \cup
             {Append(w, QNote(p, c)) :
                 w \in {v \in shorter : Len(v) = n - 1},
                 p \in QPaths, c \in CreatedArgs}

DistinctPaths(walk) ==
    \A i, j \in DOMAIN walk : walk[i].path = walk[j].path => i = j

QueryInit ==
    /\ \E walk \in {w \in Walks(MaxNotes) : DistinctPaths(w)} :
          LET idx == QBuild(walk, [notes |-> <<>>, notes_by_path |-> <<>>])
          IN  /\ qnotes = idx.notes
              /\ qnotes_by_path = idx.notes_by_path
    /\ max_search_results \in 1..MaxSearch
    /\ qret = [op |-> "init"]
    /\ OnlyQuery

FolderArgs == {<<"A">>, <<"B">>}

DateArgs == {None, Day(1), Day(3)}

DefaultLimit == 50

LimitArgs == {1, DefaultLimit}

QueryList ==
    /\ \E folder \in {NoFolder, <<"A">>}, created_after \in DateArgs,
          created_before \in {None, Day(3)}, limit \in LimitArgs :
          qret' = [op |-> "list_notes", folder |-> folder,
                   created_after |-> created_after, created_before |-> created_before,
                   limit |-> limit,
                   listed |-> VaultIndex_list_notes(folder, created_after,
                                                    created_before, limit)]
    /\ UNCHANGED <<qnotes, qnotes_by_path, max_search_results, exceptQuery>>

QueryFolderStats ==
    /\ \E folder_path \in FolderArgs, clock \in 0..(TicksPerDay - 1) :
          qret' = get_folder_task_stats(folder_path, 7, clock)
    /\ UNCHANGED <<qnotes, qnotes_by_path, max_search_results, exceptQuery>>

QueryNext == QueryList \/ QueryFolderStats

SpecQuery == QueryInit /\ [][QueryNext]_vars

\* An index of notes created on different days, or with no created value,
\* built in every walk order.
ListedNotes ==
    {QNote(p, c) : p \in {<<"A", "/", "p">>, <<"A", "/", "q">>, <<"B", "/", "t">>},
                   c \in {None, Day(1), Day(2)}}

ListingInit ==
    /\ \E walk \in {w \in ListsOf(ListedNotes, MaxNotes) : DistinctPaths(w)} :
          LET idx == QBuild(walk, [notes |-> <<>>, notes_by_path |-> <<>>])
          IN  /\ qnotes = idx.notes
              /\ qnotes_by_path = idx.notes_by_path
    /\ max_search_results \in 1..MaxSearch
    /\ qret = [op |-> "init"]
    /\ OnlyQuery

SpecListing == ListingInit /\ [][QueryNext]_vars

----------------------------------------------------------------------------
(* Parsing the checklist lines of a content *)

\* The lines tried. completion_date is what COMPLETION_DATE_PATTERN captures
\* from the line: None without a marker, otherwise the ten characters after
\* it, which need not be a date of the calendar (BadDate, "2025-99-99").
Checkboxes == {" ", "x", "X"}

CompletionMarkers == {None, Day(0 - 3), BadDate}

LineArgs ==
    {TextLine} \cup
    {CheckLine(c, d, None, FALSE) : c \in Checkboxes, d \in CompletionMarkers}

NotParsed == [parsed |-> FALSE]

\* line_num = content[:match.start()].count('\n') + 1 for every match of
\* TASK_PATTERN: the position of the checklist line in content, from 1.
RECURSIVE source_lines(_, _)
source_lines(content, line_num) ==
    IF content = <<>> THEN <<>>
    ELSE (IF Head(content).kind = "task" THEN <<line_num>> ELSE <<>>)
            \o source_lines(Tail(content), line_num + 1)

\* The note file is a metadata header of pheader lines ('---', the fields,
\* '---'), or none, followed by the lines of pcontent; Note.content is
\* frontmatter's content, the file without the header.
HeaderLines == {0, 3}

ParseInit ==
    /\ pcontent \in ListsOf(LineArgs, MaxLines)
    /\ pheader \in HeaderLines
    /\ ptasks = NotParsed
    /\ OnlyParse

\* tasks = TaskParser.parse_tasks(note_data['content'], note_meta['path']), as
\* the aggregations call it on the content read_note returns for a note.
ParseTasks ==
    /\ ptasks' = [parsed |-> TRUE, tasks |-> parse_tasks(pcontent),
                   source_line |-> source_lines(pcontent, 1)]
    /\ UNCHANGED <<pcontent, pheader, exceptParse>>

\* The content is edited: one more line at its end.
ParseAppendLine ==
    /\ Len(pcontent) < MaxLines
    /\ \E line \in LineArgs : pcontent' = Append(pcontent, line)
    /\ ptasks' = NotParsed
    /\ UNCHANGED <<pheader, exceptParse>>

ParseNext == ParseTasks \/ ParseAppendLine

SpecParse == ParseInit /\ [][ParseNext]_vars

\* The statistics of a parsed content: calculate_stats is given what
\* parse_tasks returns. The lines tried are ticked with no completion marker,
\* with one of the last week, the last month or earlier, or a malformed one,
\* blocked or not, and one open line that carries a marker.
StatsLineArgs ==
    {TextLine, CheckLine(" ", Day(0 - 3), None, FALSE)} \cup
    {CheckLine("x", d, None, b) :
        d \in {None, Day(0 - 3), Day(0 - 8), Day(0 - 40), BadDate}, b \in BOOLEAN}

ParsedInit ==
    /\ tasks \in {parse_tasks(content) : content \in ListsOf(StatsLineArgs, MaxLines)}
    /\ now \in 0..(TicksPerDay - 1)
    /\ stats = NoStats
    /\ OnlyStats

SpecParsedStats == ParsedInit /\ [][StatsNext]_vars

----------------------------------------------------------------------------
(* Searching the index, backlinks and reading a note *)

\* A line of a note body as the searches read it: plain text, or a wikilink
\* [[target]] or [[target|alias]] on a line of its own.
Prose(text) == [kind |-> "text", text |-> text]

Wikilink(target, alias) == [kind |-> "link", target |-> target, alias |-> alias]

LineText(line) ==
    IF line.kind = "link"
    THEN <<"[", "[">> \o line.target
            \o (IF line.alias = <<>> THEN <<>> ELSE <<"|">> \o line.alias)
            \o <<"]", "]">>
    ELSE line.text

\* note.content: the lines joined by newlines.
RECURSIVE ContentText(_)
ContentText(lines) ==
    IF lines = <<>> THEN <<>>
    ELSE IF Len(lines) = 1 THEN LineText(lines[1])
    ELSE LineText(Head(lines)) \o <<"\n">> \o ContentText(Tail(lines))

\* Note.get_wikilinks(): group 1 of the pattern stops at "|", and a token
\* with "/" in it is cut to its last segment.
RECURSIVE get_wikilinks(_)
get_wikilinks(lines) ==
    IF lines = <<>> THEN <<>>
    ELSE (IF Head(lines).kind = "link" THEN <<StemOf(Head(lines).target)>> ELSE <<>>)
            \o get_wikilinks(Tail(lines))

\* `query in search_content`
IsSubstring(query, text) ==
    \E i \in 0..(Len(text) - Len(query)) : SubSeq(text, i + 1, i + Len(query)) = query

\* Note.contains_text(query, case_sensitive)
contains_text(note, query, case_sensitive) ==
    LET searched == note.title \o <<"\n">> \o ContentText(note.content)
    IN  IF case_sensitive
        THEN IsSubstring(query, searched)
        ELSE IsSubstring(lower(query), lower(searched))

\* para_location=None or "": `if para_location` is false for both.
NoLocation == ""

\* The loop of VaultIndex.search_content over self.notes.values().
RECURSIVE SearchScan(_, _, _, _, _, _, _)
SearchScan(values, query, para_location, folder, case_sensitive, limit, results) ==
    IF values = <<>> THEN results
    ELSE LET note == Head(values)
             rest == Tail(values)
         IN  IF para_location # NoLocation /\ note.para_location # para_location
             THEN SearchScan(rest, query, para_location, folder, case_sensitive,
                             limit, results)
             ELSE IF folder # NoFolder /\ ~startswith(note.path, folder)
             THEN SearchScan(rest, query, para_location, folder, case_sensitive,
                             limit, results)
             ELSE IF contains_text(note, query, case_sensitive)
             THEN IF Len(results) + 1 >= limit
                  THEN Append(results, note)
                  ELSE SearchScan(rest, query, para_location, folder, case_sensitive,
                                  limit, Append(results, note))
             ELSE SearchScan(rest, query, para_location, folder, case_sensitive,
                             limit, results)

\* VaultIndex.search_content(query, para_location, folder, case_sensitive, limit)
search_content(query, para_location, folder, case_sensitive, limit) ==
    SearchScan(DictValues(qnotes), query, para_location, folder, case_sensitive,
               limit, <<>>)

\* VaultIndex.get_backlinks(note_title)
get_backlinks(note_title) ==
    SelectSeq(DictValues(qnotes),
              LAMBDA note : \E i \in DOMAIN get_wikilinks(note.content) :
                               get_wikilinks(note.content)[i] = note_title)

\* The notes tried: P/P.md and P2/p.md have the same title up to letter
\* case, and folder P2 begins with the name of folder P. The body and the
\* para field of the header go with the path.
SPaths ==
    {<<"P", "/", "P">>, <<"P", "2", "/", "p">>, <<"P", "/", "n">>,
     <<"Q", "/", "m">>, <<"Q", "/", "k">>}

SBodyOf(path) ==
    CASE path = <<"P", "/", "P">> -> <<Wikilink(<<"m">>, <<>>)>>
      [] path = <<"P", "2", "/", "p">> ->
            <<Wikilink(<<"m">>, <<>>), Prose(<<"k">>)>>
      [] path = <<"P", "/", "n">> -> <<Wikilink(<<"Q", "/", "P">>, <<"a">>)>>
      [] path = <<"Q", "/", "m">> -> <<Prose(<<"P">>)>>
      [] OTHER -> <<Wikilink(<<"p">>, <<>>)>>

SParaOf(path) ==
    IF path \in {<<"P", "/", "P">>, <<"P", "/", "n">>, <<"Q", "/", "k">>}
    THEN "projects" ELSE NoLocation

SNote(path) ==
    [note |-> TRUE, path |-> path, title |-> StemOf(path), created |-> None,
     content |-> SBodyOf(path), para_location |-> SParaOf(path)]

\* The sets of at most n of the files.
FileSets(n) == {F \in SUBSET SPaths : Cardinality(F) <= n}

SearchInit ==
    /\ \E F \in FileSets(MaxIndexed) : \E walk \in Orders({SNote(p) : p \in F}) :
          LET idx == QBuild(walk, [notes |-> <<>>, notes_by_path |-> <<>>])
          IN  /\ qnotes = idx.notes
              /\ qnotes_by_path = idx.notes_by_path
    /\ max_search_results \in 1..MaxSearch
    /\ qret = [op |-> "init"]
    /\ OnlyQuery

\* refresh(): both maps rebuilt from a walk of the same files, in the order
\* the file system gives this time.
SearchRefresh ==
    /\ \E walk \in Orders({qnotes_by_path[i][2] : i \in DOMAIN qnotes_by_path}) :
          LET idx == QBuild(walk, [notes |-> <<>>, notes_by_path |-> <<>>])
          IN  /\ qnotes' = idx.notes
              /\ qnotes_by_path' = idx.notes_by_path
    /\ qret' = [op |-> "refresh"]
    /\ UNCHANGED <<max_search_results, exceptQuery>>

TitleQueries == {<<"P">>, <<"p">>, <<"m">>}

SearchBacklinks ==
    /\ \E note_title \in TitleQueries :
          qret' = [op |-> "get_backlinks", note_title |-> note_title,
                   backlinks |-> get_backlinks(note_title)]
    /\ UNCHANGED <<qnotes, qnotes_by_path, max_search_results, exceptQuery>>

SFolderArgs == {NoFolder, <<"P">>, <<"Q">>}

SearchDefaultLimit == 20

SearchContent ==
    /\ \E query \in {<<"p">>, <<"k">>}, para_location \in {NoLocation, "projects"},
          folder \in SFolderArgs, case_sensitive \in BOOLEAN,
          limit \in {0, 1, SearchDefaultLimit} :
          qret' = [op |-> "search_content", query |-> query,
                   para_location |-> para_location, folder |-> folder,
                   case_sensitive |-> case_sensitive, limit |-> limit,
                   results |-> search_content(query, para_location, folder,
                                              case_sensitive, limit)]
    /\ UNCHANGED <<qnotes, qnotes_by_path, max_search_results, exceptQuery>>

SearchList ==
    /\ \E folder \in SFolderArgs, limit \in {0, 1, DefaultLimit} :
          qret' = [op |-> "list_notes", folder |-> folder, limit |-> limit,
                   results |-> VaultIndex_list_notes(folder, None, None, limit)]
    /\ UNCHANGED <<qnotes, qnotes_by_path, max_search_results, exceptQuery>>

SearchReaderList ==
    /\ \E folder \in SFolderArgs, limit \in {0, 1, DefaultLimit} :
          qret' = [op |-> "VaultReader.list_notes", folder |-> folder,
                   limit |-> limit,
                   results |-> VaultReader_list_notes(folder, None, None, limit)]
    /\ UNCHANGED <<qnotes, qnotes_by_path, max_search_results, exceptQuery>>

PathSelectors == {NotGiven, <<"P", "/", "P">>, <<"Q", "/", "m">>}

TitleSelectors == {NotGiven, <<"P">>, <<"p">>, <<"m">>}

SearchRead ==
    /\ \E path \in PathSelectors, title \in TitleSelectors :
          qret' = [op |-> "read_note", path |-> path, title |-> title,
                   result |-> read_note(path, title)]
    /\ UNCHANGED <<qnotes, qnotes_by_path, max_search_results, exceptQuery>>

SearchNext ==
    \/ SearchRefresh
    \/ SearchBacklinks
    \/ SearchContent
    \/ SearchList
    \/ SearchReaderList
    \/ SearchRead

SpecSearch == SearchInit /\ [][SearchNext]_vars

----------------------------------------------------------------------------
(* Resolving a wikilink to a file *)

\* The files tried: P.md in the inbox and in each folder of the exclusion
\* set, and n.md in the inbox. A link is the sequence of its characters,
\* a folder name counting as one.
RPaths ==
    {PathOf(f, <<"P">>) : f \in {para_folders.inbox} \cup exclude_folders}
        \cup {PathOf(para_folders.inbox, <<"n">>)}

LinkArgs ==
    {<<"P">>, <<"[", "[", "P", "]", "]">>, <<"[", "[", "n", "|", "a", "]", "]">>,
     <<"x", "/", "P">>, <<para_folders.inbox, "/", "n">>, <<".trash", "/", "P">>}

\* link.strip("[]").strip()
RECURSIVE strip_brackets(_)
strip_brackets(link) ==
    IF link = <<>> THEN <<>>
    ELSE IF Head(link) \in {"[", "]"} THEN strip_brackets(Tail(link))
    ELSE IF link[Len(link)] \in {"[", "]"}
    THEN strip_brackets(SubSeq(link, 1, Len(link) - 1))
    ELSE link

\* link.split("|")[0]
RECURSIVE before_pipe(_)
before_pipe(link) ==
    IF link = <<>> \/ Head(link) = "|" THEN <<>>
    ELSE <<Head(link)>> \o before_pipe(Tail(link))

\* The first file of the walk with that name that is not under .obsidian
\* or .trash, or None.
RECURSIVE first_match(_, _)
first_match(walk, note_name) ==
    IF walk = <<>> THEN None
    ELSE IF Head(walk).stem = note_name /\ Head(walk).folder \notin {".obsidian", ".trash"}
    THEN Head(walk)
    ELSE first_match(Tail(walk), note_name)

\* resolve_wikilink(link, vault_path), the recursive search visiting the
\* files in the order of walk.
resolve_wikilink(link, files, walk) ==
    LET stripped == strip(strip_brackets(link))
        name == IF \E i \in DOMAIN stripped : stripped[i] = "|"
                THEN strip(before_pipe(stripped)) ELSE stripped
        has_folder == \E i \in DOMAIN name : name[i] = "/"
        target == PathOf(name[1], StemOf(name))
    IN  IF has_folder /\ target \in RPaths /\ files[target] # NoFile
        THEN [op |-> "resolve_wikilink", link |-> link, walk |-> walk,
              via |-> "exact path", result |-> target]
        ELSE [op |-> "resolve_wikilink", link |-> link, walk |-> walk,
              via |-> "search", result |-> first_match(walk, StemOf(name))]

PresentIn(files) == {p \in RPaths : files[p] # NoFile}

ResolveInit ==
    /\ tree \in [RPaths -> {NoFile, TextFile(<<"text">>)}]
    /\ notes = Unused
    /\ notes_by_path = Unused
    /\ ret = [op |-> "init"]
    /\ OnlyIndex

ResolveLink ==
    /\ \E link \in LinkArgs, walk \in Orders(PresentIn(tree)) :
          ret' = resolve_wikilink(link, tree, walk)
    /\ UNCHANGED <<tree, notes, notes_by_path, exceptIndex>>

\* A file is created or deleted.
ResolveOutside ==
    /\ \E p \in RPaths :
          tree' = [tree EXCEPT ![p] = IF tree[p] = NoFile
                                      THEN TextFile(<<"text">>) ELSE NoFile]
    /\ ret' = [op |-> "outside"]
    /\ UNCHANGED <<notes, notes_by_path, exceptIndex>>

ResolveNext == ResolveLink \/ ResolveOutside

SpecResolve == ResolveInit /\ [][ResolveNext]_vars

----------------------------------------------------------------------------
(* The fingerprint of a section text, character by character *)

\* The section merge above names a text by [norm, ws]; here the text is the
\* sequence of its characters and the normalisation is carried out on it.
Letters == {"a", "b"}

Whitespace == {" ", "\t", "\n"}

\* content.split(): the maximal runs of characters that are not whitespace.
RECURSIVE split(_, _, _)
split(content, word, words) ==
    IF content = <<>>
    THEN IF word = <<>> THEN words ELSE Append(words, word)
    ELSE IF Head(content) \in Whitespace
    THEN split(Tail(content), <<>>, IF word = <<>> THEN words ELSE Append(words, word))
    ELSE split(Tail(content), Append(word, Head(content)), words)

\* ' '.join(words)
RECURSIVE join(_)
join(words) ==
    IF words = <<>> THEN <<>>
    ELSE IF Len(words) = 1 THEN words[1]
    ELSE Head(words) \o <<" ">> \o join(Tail(words))

\* hashlib.md5(data).hexdigest()[:12]: the digest is named by the data it is
\* the digest of.
md5(data) == [md5 |-> data]

\* The digest of the text as it is, whitespace included.
section_hash_verbatim(content) == md5(content)

\* _compute_section_hash(content)
section_hash(content) == md5(join(split(content, <<>>, <<>>)))

SectionTexts == ListsOf(Letters \cup Whitespace, MaxText)

Fingerprinted(change, text) == [change |-> change, hash |-> section_hash(text)]

HashInit ==
    /\ htext \in SectionTexts
    /\ hdigest = Fingerprinted("none", htext)
    /\ OnlyHash

\* The same text is fingerprinted again.
HashAgain ==
    /\ hdigest' = Fingerprinted("none", htext)
    /\ UNCHANGED <<htext, exceptHash>>

\* One whitespace character becomes another, then the text is fingerprinted.
HashOtherWhitespace ==
    /\ \E i \in DOMAIN htext, w \in Whitespace :
          /\ htext[i] \in Whitespace
          /\ w # htext[i]
          /\ htext' = [htext EXCEPT ![i] = w]
    /\ hdigest' = Fingerprinted("whitespace", htext')
    /\ UNCHANGED exceptHash

\* A run of whitespace gets one character longer.
HashLongerRun ==
    /\ Len(htext) < MaxText
    /\ \E i \in DOMAIN htext, w \in Whitespace :
          /\ htext[i] \in Whitespace
          /\ htext' = SubSeq(htext, 1, i) \o <<w>> \o SubSeq(htext, i + 1, Len(htext))
    /\ hdigest' = Fingerprinted("whitespace", htext')
    /\ UNCHANGED exceptHash

\* A run of whitespace of two or more characters gets one shorter.
HashShorterRun ==
    /\ \E i \in 1..(Len(htext) - 1) :
          /\ htext[i] \in Whitespace
          /\ htext[i + 1] \in Whitespace
          /\ htext' = SubSeq(htext, 1, i - 1) \o SubSeq(htext, i + 1, Len(htext))
    /\ hdigest' = Fingerprinted("whitespace", htext')
    /\ UNCHANGED exceptHash

\* A letter is replaced by another.
HashOtherLetter ==
    /\ \E i \in DOMAIN htext, c \in Letters :
          /\ htext[i] \in Letters
          /\ c # htext[i]
          /\ htext' = [htext EXCEPT ![i] = c]
    /\ hdigest' = Fingerprinted("letters", htext')
    /\ UNCHANGED exceptHash

HashNext ==
    \/ HashAgain
    \/ HashOtherWhitespace
    \/ HashLongerRun
    \/ HashShorterRun
    \/ HashOtherLetter

SpecHash == HashInit /\ [][HashNext]_vars

----------------------------------------------------------------------------
(* create_note into a subfolder *)

\* A path below the vault is the sequence of its components, a component
\* the sequence of its characters; the name of a configured folder and the
\* suffix ".md" count as one character each. The disk is the set of files
\* and the set of directories, by path.
NoPath == <<>>

Dir(name) == <<name>>

Disk(files, dirs) == [files |-> files, dirs |-> dirs]

Prefixes(path) == {SubSeq(path, 1, k) : k \in 1..Len(path)}

\* subfolder.strip("/")
RECURSIVE strip_slashes(_)
strip_slashes(str) ==
    IF str = <<>> THEN <<>>
    ELSE IF Head(str) = "/" THEN strip_slashes(Tail(str))
    ELSE IF str[Len(str)] = "/" THEN strip_slashes(SubSeq(str, 1, Len(str) - 1))
    ELSE str

\* The traversal test taken for: the subfolder is ".." itself.
is_parent_ref(str) == str = <<".", ".">>

\* ".." in safe_subfolder
has_parent_ref(str) ==
    \E i \in 1..(Len(str) - 1) : str[i] = "." /\ str[i + 1] = "."

\* The components pathlib reads from a string: split at "/", empty and "."
\* components dropped, ".." kept.
RECURSIVE path_parts(_, _)
path_parts(str, part) ==
    LET done == IF part \in {<<>>, <<".">>} THEN <<>> ELSE <<part>>
    IN  IF str = <<>> THEN done
        ELSE IF Head(str) = "/" THEN done \o path_parts(Tail(str), <<>>)
        ELSE path_parts(Tail(str), Append(part, Head(str)))

\* target_folder / safe_subfolder: a string that starts with "/" replaces
\* the path it is joined to.
joinpath(base, str) ==
    IF str # <<>> /\ Head(str) = "/"
    THEN <<Dir("/")>> \o path_parts(str, <<>>)
    ELSE base \o path_parts(str, <<>>)

\* target_folder.mkdir(parents=True, exist_ok=True): the exception it
\* raises, or "none".
mkdir(disk, folder) ==
    IF \E k \in 1..(Len(folder) - 1) : SubSeq(folder, 1, k) \in disk.files
    THEN "NotADirectoryError"
    ELSE IF folder \in disk.files THEN "FileExistsError"
    ELSE "none"

CreateReturned(raised, target, para_location) ==
    [op |-> "create_note", raised |-> raised, target |-> target,
     para_location |-> para_location]

\* self.index.notes[note.title.lower()] = note, the map kept as a set of
\* <<key, path>> pairs.
TitleMapSet(map, title, path) ==
    {e \in map : e[1] # lower(title)} \cup {<<lower(title), path>>}

\* create_note(title, para_location, content, subfolder, tags); the body
\* of the file plays no part in where it is written.
create_note_into(title, para_location, subfolder) ==
    LET safe_title == sanitize_filename(title)
        safe_subfolder == strip_slashes(subfolder)
        raise(exception) ==
            /\ ret' = CreateReturned(exception, NoPath, para_location)
            /\ UNCHANGED <<tree, notes, notes_by_path>>
    IN  IF para_location \notin allowed_locations \/ safe_title = <<>>
        THEN raise("ValueError")
        ELSE IF subfolder # NotGiven /\ has_parent_ref(safe_subfolder)
        THEN raise("ValueError")
        ELSE LET para_folder == <<Dir(para_folders[para_location])>>
                 target_folder == IF subfolder # NotGiven
                                  THEN joinpath(para_folder, safe_subfolder)
                                  ELSE para_folder
                 file_path == Append(target_folder, Append(safe_title, ".md"))
                 made == Disk(tree.files, tree.dirs \cup Prefixes(target_folder))
             IN  IF mkdir(tree, target_folder) # "none"
                 THEN raise(mkdir(tree, target_folder))
                 ELSE IF file_path \in made.files \cup made.dirs
                 THEN /\ tree' = made
                      /\ ret' = CreateReturned("FileExistsError", file_path, para_location)
                      /\ UNCHANGED <<notes, notes_by_path>>
                 ELSE /\ tree' = Disk(made.files \cup {file_path}, made.dirs)
                      /\ notes' = TitleMapSet(notes, safe_title, file_path)
                      /\ notes_by_path' = notes_by_path \cup {file_path}
                      /\ ret' = CreateReturned("none", file_path, para_location)

\* The calls tried: titles and subfolders with "/", "\" and ".." in them.
CreateTitles == {<<"a">>, <<"/">>, <<".", ".", "/">>, <<"\\", "a">>}

SubfolderArgs ==
    {NotGiven, <<"a">>, <<"/", "a", "/">>, <<"a", "/", "a">>, <<".">>,
     <<".", "/", "a">>, <<"/">>, <<".", ".">>, <<".", ".", "/", "a">>,
     <<"a", "/", ".", ".", "/", ".", ".">>, <<"a", ".", ".", "a">>,
     <<"\\", "a">>, <<".", ".", "\\", "a">>}

LocationArgs == {"projects", "areas", "inbox", "notes"}

\* The vault at the start: the two folders, empty or with a file named a or
\* a note a.md in "1 - Projects"; the index holds the note.
CreateInit ==
    /\ \E files \in {{}, {<<Dir(para_folders.projects), <<"a">>>>},
                     {<<Dir(para_folders.projects), <<"a", ".md">>>>}} :
          /\ tree = Disk(files, {<<Dir(para_folders.projects)>>,
                                 <<Dir(para_folders.areas)>>})
          /\ notes_by_path = {p \in files : p[Len(p)] = <<"a", ".md">>}
          /\ notes = {<<<<"a">>, p>> : p \in {q \in files : q[Len(q)] = <<"a", ".md">>}}
    /\ ret = [op |-> "init"]
    /\ OnlyIndex

CreateInto ==
    /\ \E title \in CreateTitles, para_location \in LocationArgs,
          subfolder \in SubfolderArgs :
          /\ Cardinality(tree.files) < MaxFiles
          /\ create_note_into(title, para_location, subfolder)
    /\ UNCHANGED exceptIndex

SpecCreate == CreateInit /\ [][CreateInto]_vars

----------------------------------------------------------------------------
(* Claims on the section merge *)

\* A section the last step was asked to update, present in the note, whose
\* header fingerprint exists and differs from the fingerprint of its text.
ModifiedBefore(s) ==
    /\ dailyFile # NoFile
    /\ dailyFile.body[s] \in Texts
    /\ HeaderFingerprint(dailyFile, s) # 0
    /\ compute_section_hash(dailyFile.body[s]) # HeaderFingerprint(dailyFile, s)

\* C1: an update_daily_note step on an existing note with
\* preserve_modified=true leaves every requested, present section whose text
\* no longer matches its stored fingerprint as it was, lists it in
\* preserved_sections, and keeps the fingerprint the header stored for it.
C1_ModifiedSectionPreserved ==
    [][(res'.op = "updated" /\ res'.preserve) =>
        \A s \in res'.requested :
            ModifiedBefore(s) =>
                /\ dailyFile'.body[s] = dailyFile.body[s]
                /\ s \in res'.preserved
                /\ HeaderFingerprint(dailyFile', s) = HeaderFingerprint(dailyFile, s)]_vars

\* C2: once a human edit has moved the text of section S away from what
\* update_daily_note last wrote into it, no update_daily_note call with
\* preserve_modified=true changes the text of S.
C2_EditedSectionNeverOverwritten ==
    [][(res'.op = "updated" /\ res'.preserve) =>
        \A s \in Sections :
            (edited[s] /\ HeaderFingerprint(dailyFile, s) # 0) =>
                dailyFile'.body[s] = dailyFile.body[s]]_vars

\* C3: an update_daily_note call on an existing note that repeats the
\* arguments of the call made just before it leaves the file as that call
\* wrote it, header line included.
C3_SecondCallChangesNothing ==
    [][(lastArgs # None /\ lastArgs' = lastArgs /\ res'.op = "updated") =>
        dailyFile' = dailyFile]_vars

\* C7: after update_daily_note has updated or created the note, the index
\* entry of its path holds the body of the file now on disk.
C7_IndexFollowsUpdate ==
    res.op \in {"updated", "created"} =>
        /\ dailyIndexed # NoNote
        /\ dailyIndexed.content = dailyFile.body

----------------------------------------------------------------------------
(* Claims on the vault index and the create operations *)

\* A .md file of the tree that is not under an excluded folder and parses.
Indexable(p) ==
    /\ tree[p] # NoFile
    /\ p.folder \notin exclude_folders
    /\ tree[p].readable

NoteOf(p) == parse_note(p, tree[p])

\* The titles tried that equal the title of p up to letter case.
CaseVariants(p) == {t \in Stems \cup {DailyStem} : lower(t) = lower(p.stem)}

SameTitle(p) == {q \in VaultPaths : Indexable(q) /\ lower(q.stem) = lower(p.stem)}

JustBuilt == ret.op \in {"init", "refresh"}

CreateOps == {"create_note", "create_inbox_note", "create_daily_note"}

\* C6: a create_note, create_inbox_note or create_daily_note(append_if_exists
\* = false) step whose target path already holds a file raises
\* FileExistsError and changes neither the tree nor either index map.
C6_ExistingTargetRaises ==
    [][(/\ ret'.op \in CreateOps
        /\ ~ret'.append
        /\ ret'.target # None
        /\ tree[ret'.target] # NoFile)
       => /\ ret'.raised = "FileExistsError"
          /\ tree' = tree
          /\ notes' = notes
          /\ notes_by_path' = notes_by_path]_vars

\* A create operation has just been refused on an occupied path.
C6_Witness ==
    /\ ret.op \in CreateOps
    /\ ret.raised = "FileExistsError"
    /\ tree[ret.target] # NoFile

----------------------------------------------------------------------------
(* Claims on the write discipline *)

\* C5: whichever routine writes a note file, when it has raised the target
\* holds what it held when the routine was entered (or is still absent) and
\* no temporary file is left.
C5_FailedWriteLeavesTarget ==
    wpc.step = "raised" => (wtarget = wpc.prev /\ wtemp = NoFile)

----------------------------------------------------------------------------
(* Claims on the task statistics *)

\* The three tasks of the example: completed three days ago; not completed
\* and due yesterday; not completed and blocked.
ExampleTasks ==
    << Task(TRUE, Day(0 - 3), None, "none", FALSE),
       Task(FALSE, None, Day(0 - 1), "none", FALSE),
       Task(FALSE, None, None, "none", TRUE) >>

ExampleComputed ==
    /\ stats # NoStats
    /\ stats.lookback_days = 7
    /\ tasks = ExampleTasks

\* C10 as stated: calculate_stats(tasks, lookback_days=7) on the three
\* example tasks yields completed_this_week=1, overdue=1, blocked=1 and
\* active=0.
C10_ExampleActiveZero ==
    ExampleComputed =>
        /\ stats.counts.completed_this_week = 1
        /\ stats.counts.overdue = 1
        /\ stats.counts.blocked = 1
        /\ stats.counts.active = 0

\* C10 amended: on the three example tasks calculate_stats yields
\* completed_this_week=1, overdue=1, blocked=1 and active=1: the overdue
\* task is neither completed nor blocked and so counts as active.
C10_ExampleActiveOne ==
    ExampleComputed =>
        /\ stats.counts.completed_this_week = 1
        /\ stats.counts.overdue = 1
        /\ stats.counts.blocked = 1
        /\ stats.counts.active = 1

\* calculate_stats has run on the example with lookback_days=7, later in the
\* day than midnight.
C10_Witness == ExampleComputed /\ now > 0

----------------------------------------------------------------------------
(* Claims on the listings *)

WithinBounds(created, created_after, created_before) ==
    /\ created # None
    /\ created_after # None => created.day >= created_after.day
    /\ created_before # None => created.day <= created_before.day

\* C8: VaultIndex.list_notes called with created_after or created_before
\* returns only notes that have a created value, lying within the bounds.
C8_DateFilterDropsUndated ==
    (qret.op = "list_notes" /\ (qret.created_after # None \/ qret.created_before # None))
        => \A i \in DOMAIN qret.listed :
              WithinBounds(qret.listed[i].created, qret.created_after, qret.created_before)

RECURSIVE SumTasks(_)
SumTasks(pairs) ==
    IF pairs = <<>> THEN 0
    ELSE Len(parse_tasks(Head(pairs)[2].content)) + SumTasks(Tail(pairs))

\* The entries of the path map whose path starts with the folder.
IndexedUnder(folder) == SelectSeq(qnotes_by_path, LAMBDA e : startswith(e[1], folder))

\* C9: get_folder_task_stats(folder) scans every indexed note whose path
\* starts with folder and counts all their checklist lines, whatever the
\* number of notes and max_search_results.
C9_FolderStatsCountEveryNote ==
    qret.op = "get_folder_task_stats" =>
        /\ qret.notes_scanned = Len(IndexedUnder(qret.folder))
        /\ qret.stats.total_tasks = SumTasks(IndexedUnder(qret.folder))

----------------------------------------------------------------------------
(* Claims on parse_tasks *)

\* The checklist lines of a content, in order: the matches of TASK_PATTERN.
ChecklistLines(content) == SelectSeq(content, LAMBDA line : line.kind = "task")

\* C11: parse_tasks reports one task per checklist line; the task of a line
\* whose box is x or X but which carries no completion-date marker has
\* completed = false, and a task has completed = true only when its line
\* has both a ticked box and a completion-date marker.
C11_CompletedNeedsBoxAndMarker ==
    ptasks.parsed =>
        LET lines == ChecklistLines(pcontent)
        IN  /\ Len(ptasks.tasks) = Len(lines)
            /\ \A i \in DOMAIN lines :
                  /\ (lines[i].checkbox \in {"x", "X"} /\ lines[i].completion_date = None)
                        => ~ptasks.tasks[i].completed
                  /\ ptasks.tasks[i].completed
                        => (lines[i].checkbox \in {"x", "X"}
                            /\ lines[i].completion_date # None)

\* A parsed content with a ticked line without a marker, a ticked line with
\* a marker and an open line with a marker.
C11_Witness ==
    /\ ptasks.parsed
    /\ \E i, j, k \in DOMAIN pcontent :
          /\ pcontent[i].kind = "task" /\ pcontent[i].checkbox = "X"
          /\ pcontent[i].completion_date = None
          /\ pcontent[j].kind = "task" /\ pcontent[j].checkbox = "x"
          /\ pcontent[j].completion_date # None
          /\ pcontent[k].kind = "task" /\ pcontent[k].checkbox = " "
          /\ pcontent[k].completion_date # None

\* The lines of the note file at which its checklist lines stand, from 1.
FileLines == source_lines([i \in 1..pheader |-> TextLine] \o pcontent, 1)

\* C24: for every task the aggregations extract from a note, source_line is
\* the 1-based number of the checklist line in the note file, also when the
\* file begins with a metadata header.
C24_SourceLineIsLineOfFile ==
    ptasks.parsed =>
        /\ Len(ptasks.source_line) = Len(FileLines)
        /\ \A i \in DOMAIN FileLines : ptasks.source_line[i] = FileLines[i]

----------------------------------------------------------------------------
(* Claims on searching, backlinks and reading *)

\* The notes of the index: one per indexed path.
IndexedNotes == {qnotes_by_path[i][2] : i \in DOMAIN qnotes_by_path}

Elements(list) == {list[i] : i \in DOMAIN list}

LinksTo(note, note_title) ==
    \E i \in DOMAIN get_wikilinks(note.content) :
        get_wikilinks(note.content)[i] = note_title

\* C12: get_backlinks(T) returns exactly the indexed notes whose wikilink
\* token list contains T character for character, with no case folding
\* and no alias handling of T.
C12_BacklinksExactlyLiteralLinkers ==
    qret.op = "get_backlinks" =>
        Elements(qret.backlinks) = {n \in IndexedNotes : LinksTo(n, qret.note_title)}

\* The first Len(F) characters of the path are F.
LiteralPrefix(F, path) ==
    Len(F) <= Len(path) /\ \A i \in 1..Len(F) : path[i] = F[i]

InFolderP2 == <<"P", "2", "/", "p">>

\* C13: list_notes and search_content with folder=F return only notes whose
\* vault-relative path begins with the characters of F, and the test is on
\* characters, not on path segments: with F = "P" the note P2/p.md of the
\* notes scanned passes the folder filter and is returned when no other
\* filter and no limit keeps it out.
C13_FolderFilterIsLiteralPrefix ==
    (qret.op \in {"list_notes", "search_content"} /\ qret.folder # NoFolder) =>
        /\ \A n \in Elements(qret.results) : LiteralPrefix(qret.folder, n.path)
        /\ (/\ qret.folder = <<"P">>
            /\ qret.limit \in {DefaultLimit, SearchDefaultLimit}
            /\ qret.op = "search_content" => qret.para_location = NoLocation)
              => \A n \in Elements(DictValues(qnotes)) :
                    n.path = InFolderP2 => n \in Elements(qret.results)

\* Both operations have returned P2/p.md for folder "P".
C13_Witness ==
    /\ qret.op = "search_content"
    /\ qret.folder = <<"P">>
    /\ \E n \in Elements(qret.results) : n.path = InFolderP2
    /\ \E n \in Elements(VaultIndex_list_notes(<<"P">>, None, None, DefaultLimit)) :
          n.path = InFolderP2

----------------------------------------------------------------------------
(* Claims on resolve_wikilink *)

\* The files of the walk with the name searched for that is_excluded lets
\* through.
RECURSIVE Remaining(_, _)
Remaining(walk, note_name) ==
    IF walk = <<>> THEN <<>>
    ELSE (IF Head(walk).stem = note_name /\ ~is_excluded(Head(walk))
          THEN <<Head(walk)>> ELSE <<>>)
            \o Remaining(Tail(walk), note_name)

\* C14: the vault-wide name search of resolve_wikilink skips every file
\* under a folder of config.exclude_folders and returns the first match
\* that remains: its result is never under an excluded folder.
C14_SearchSkipsExcludedFolders ==
    (ret.op = "resolve_wikilink" /\ ret.via = "search") =>
        LET name == IF ret.result = None THEN <<>> ELSE ret.result.stem
        IN  /\ ret.result # None => ~is_excluded(ret.result)
            /\ ret.result # None => ret.result = Head(Remaining(ret.walk, name))

PathIndexed(path) == \E n \in IndexedNotes : n.path = path

TitleIndexed(title) == DictHas(qnotes, lower(title))

Raised(result) == "raised" \in DOMAIN result

\* C15: read_note raises ValueError exactly when neither path nor title is
\* given; otherwise it raises nothing, a note that is not found is reported
\* as None, and with a path that is not in the index and a title that is,
\* the note found by title is returned.
C15_ReadRaisesOnlyWithoutSelector ==
    qret.op = "read_note" =>
        /\ Raised(qret.result) <=> (qret.path = NotGiven /\ qret.title = NotGiven)
        /\ Raised(qret.result) => qret.result.raised = "ValueError"
        /\ (/\ qret.path # NotGiven \/ qret.title # NotGiven
            /\ qret.path = NotGiven \/ ~PathIndexed(qret.path)
            /\ qret.title = NotGiven \/ ~TitleIndexed(qret.title))
              => qret.result = NoNote
        /\ (qret.path # NotGiven /\ ~PathIndexed(qret.path)
            /\ qret.title # NotGiven /\ TitleIndexed(qret.title))
              => (/\ qret.result = DictGet(qnotes, lower(qret.title), NoNote)
                  /\ qret.result # NoNote
                  /\ lower(qret.result.title) = lower(qret.title))

\* read_note was called with a path the index does not hold and a title it
\* holds, and returned that note.
C15_Witness ==
    /\ qret.op = "read_note"
    /\ qret.path # NotGiven /\ ~PathIndexed(qret.path)
    /\ qret.title # NotGiven /\ TitleIndexed(qret.title)
    /\ qret.result # NoNote /\ ~Raised(qret.result)

----------------------------------------------------------------------------
(* Claims on documents that fail to parse *)

\* A file of the tree the index would take, were it readable.
FailsToParse(p) ==
    /\ tree[p] # NoFile
    /\ p.folder \notin exclude_folders
    /\ ~tree[p].readable

\* The tree without the files that fail to parse.
WithoutFailing == [p \in VaultPaths |-> IF FailsToParse(p) THEN NoFile ELSE tree[p]]

\* C16: in an index build a document whose read or parse fails is skipped
\* and the scan goes on: neither map holds an entry for it, every other
\* eligible document is under its path, and both maps are the ones a build
\* of the tree without the failing documents gives.
C16_FailedDocumentSkipped ==
    JustBuilt =>
        /\ \A p \in VaultPaths : FailsToParse(p) =>
              /\ notes_by_path[p] = NoNote
              /\ \A t \in DOMAIN notes : notes[t] = NoNote \/ notes[t].path # p
        /\ \A q \in VaultPaths : Indexable(q) => notes_by_path[q] = NoteOf(q)
        /\ \E order \in rglob(WithoutFailing) :
              LET idx == build_index(WithoutFailing, order, EmptyIndex)
              IN  notes = idx.notes /\ notes_by_path = idx.notes_by_path

\* refresh() has run on a tree with a document that fails to parse and
\* another that parses, and the second is indexed.
C16_Witness ==
    /\ ret.op = "refresh"
    /\ \E p, q \in VaultPaths :
          /\ FailsToParse(p)
          /\ Indexable(q)
          /\ notes_by_path[q] = NoteOf(q)
          /\ notes_by_path[p] = NoNote

\* C17: search_content returns at most limit notes for every limit >= 0,
\* and every returned note passes the location filter and the folder filter
\* and contains the query in title + newline + body, letter case folded
\* unless case_sensitive.
C17_SearchWithinLimitAndFilters ==
    qret.op = "search_content" =>
        /\ Len(qret.results) <= qret.limit
        /\ \A n \in Elements(qret.results) :
              /\ qret.para_location = NoLocation
                    \/ n.para_location = qret.para_location
              /\ qret.folder = NoFolder \/ LiteralPrefix(qret.folder, n.path)
              /\ LET text == n.title \o <<"\n">> \o ContentText(n.content)
                 IN  IF qret.case_sensitive
                     THEN IsSubstring(qret.query, text)
                     ELSE IsSubstring(lower(qret.query), lower(text))

\* C19: VaultReader.list_notes returns no more than
\* config.max_search_results notes and no more than limit notes, for every
\* limit >= 0 and every filter.
C19_ListWithinConfiguredMaximum ==
    qret.op = "VaultReader.list_notes" =>
        /\ Len(qret.results) <= max_search_results
        /\ Len(qret.results) <= qret.limit

\* What the index answers: each lookup by path and by title, and the set
\* of notes of each listing and search with a limit above the number of
\* indexed files.
Answers ==
    [by_path |-> [path \in SPaths |-> DictGet(qnotes_by_path, path, NoNote)],
     by_title |-> [title \in TitleQueries |-> DictGet(qnotes, lower(title), NoNote)],
     listed |-> [folder \in SFolderArgs |->
                    Elements(VaultIndex_list_notes(folder, None, None, DefaultLimit))],
     found |-> [query \in {<<"p">>, <<"k">>} |->
                  [folder \in SFolderArgs |->
                      Elements(search_content(query, NoLocation, folder, FALSE,
                                              SearchDefaultLimit))]]]

\* C20: an index built from the same files in another walk order answers
\* get_note_by_path and get_note_by_title as before for every path and
\* title, and list_notes and search_content return the same sets of notes
\* when the limit is at least the number of indexed files.
C20_WalkOrderDoesNotMatter ==
    [][qret'.op = "refresh" => Answers' = Answers]_vars

----------------------------------------------------------------------------
(* Claims on repeated updates *)

\* C18: on the second of two consecutive update_daily_note calls with the
\* same arguments on an existing note, a section the first call updated is
\* reported neither in updated_sections nor in preserved_sections.
C18_SecondCallReportsNoOp ==
    [][(/\ lastArgs # None
        /\ lastArgs' = lastArgs
        /\ res.op = "updated"
        /\ res'.op = "updated")
       => \A s \in res.updated : s \notin res'.updated /\ s \notin res'.preserved]_vars

----------------------------------------------------------------------------
(* Claims on what an update writes *)

\* The section is present and the merge rule lets it be replaced: no
\* preservation asked for, or no fingerprint stored, or the text still has
\* the stored fingerprint.
MayReplace(s, preserve_modified) ==
    /\ dailyFile.body[s] \in Texts
    /\ \/ ~preserve_modified
       \/ HeaderFingerprint(dailyFile, s) = 0
       \/ compute_section_hash(dailyFile.body[s]) = HeaderFingerprint(dailyFile, s)

\* C22: when update_daily_note replaces a present section of an existing
\* note, the file written has the new content between the section's markers
\* and its header maps the section to the fingerprint of the new content,
\* whether or not the note had a header block or a generated_sections field.
C22_ReplacedSectionAndFingerprintWritten ==
    [][(res'.op = "updated" /\ lastArgs' # None) =>
        \A i \in DOMAIN lastArgs'.sections :
            LET s == lastArgs'.sections[i].name
                new_content == lastArgs'.sections[i].content
            IN  MayReplace(s, lastArgs'.preserve) =>
                    /\ dailyFile'.body[s] = new_content
                    /\ HeaderFingerprint(dailyFile', s) = compute_section_hash(new_content)]_vars

\* C23: an update_daily_note step on an existing note lists a requested
\* section whose markers do not occur in the note in new_sections and
\* changes nothing for it: no text appears for the section, and the
\* generated_sections field written back holds for it what it held before.
C23_AbsentSectionChangesNothing ==
    [][res'.op = "updated" =>
        \A s \in res'.requested :
            dailyFile.body[s] = NoSection =>
                /\ s \in res'.new
                /\ dailyFile'.body[s] = NoSection
                /\ HeaderFingerprint(dailyFile', s) = HeaderFingerprint(dailyFile, s)]_vars

----------------------------------------------------------------------------
(* Claims on the fingerprint *)

\* C21: the fingerprint depends on the whitespace-normalised text only:
\* fingerprinting the same text again gives the same value, and a change of
\* the kind or the length of a whitespace run leaves the fingerprint as it
\* was.
C21_FingerprintIgnoresWhitespaceRuns ==
    [][(/\ htext' = htext => hdigest'.hash = hdigest.hash)
       /\ (hdigest'.change = "whitespace" => hdigest'.hash = hdigest.hash)]_vars

\* A text of two words whose whitespace was just changed, with the
\* fingerprint it had before.
C21_Witness ==
    /\ hdigest.change = "whitespace"
    /\ Len(split(htext, <<>>, <<>>)) = 2
    /\ hdigest.hash = md5(join(split(htext, <<>>, <<>>)))
    /\ \E i \in 1..(Len(htext) - 1) : htext[i] \in Whitespace /\ htext[i + 1] \in Whitespace

----------------------------------------------------------------------------
(* Claims on due dates *)

\* The calendar day of a due date against the day of the call, day 0.
DueBeforeToday(t) ==
    ~t.completed /\ t.due_date # None /\ IsDay(t.due_date) /\ t.due_date.day < 0

DueWithin(t, lookback_days) ==
    /\ ~t.completed /\ t.due_date # None /\ IsDay(t.due_date)
    /\ 0 <= t.due_date.day /\ t.due_date.day <= lookback_days

\* C25: for every task list and lookback, calculate_stats counts as overdue
\* exactly the tasks that are not completed and due on a day before the
\* current one, and as due-soon exactly the tasks that are not completed and
\* due on a day from today to today + lookback_days; a task due today is
\* due-soon and not overdue, and no task is counted in both.
C25_OverdueAndDueSoonByCalendarDay ==
    stats # NoStats =>
        /\ stats.counts.overdue = Count(tasks, DueBeforeToday)
        /\ stats.counts.due_soon =
               Count(tasks, LAMBDA t : DueWithin(t, stats.lookback_days))
        /\ \A i \in DOMAIN tasks :
               ~(is_overdue(tasks[i], now)
                   /\ is_due_soon(tasks[i], stats.lookback_days, now))

----------------------------------------------------------------------------
(* Claims on the statistics of parsed tasks *)

\* The three classes calculate_stats counts a task in.
CountedCompleted(t) == t.completed /\ t.completion_date # None

CountedActive(t) == ~t.completed /\ ~t.blocked

CountedBlocked(t) == t.blocked /\ ~t.completed

\* C30: for every task list parse_tasks produces, calculate_stats counts
\* each task in exactly one of completed, active and blocked, so the three
\* counters add up to total_tasks, and completed_this_week <=
\* completed_this_month <= completed.
C30_CountersPartitionParsedTasks ==
    stats # NoStats =>
        /\ \A i \in DOMAIN tasks :
               Cardinality({c \in {"completed", "active", "blocked"} :
                   \/ c = "completed" /\ CountedCompleted(tasks[i])
                   \/ c = "active" /\ CountedActive(tasks[i])
                   \/ c = "blocked" /\ CountedBlocked(tasks[i])}) = 1
        /\ stats.counts.completed = Count(tasks, CountedCompleted)
        /\ stats.counts.active = Count(tasks, CountedActive)
        /\ stats.counts.blocked = Count(tasks, CountedBlocked)
        /\ stats.counts.completed + stats.counts.active + stats.counts.blocked
               = stats.counts.total_tasks
        /\ stats.counts.total_tasks = Len(tasks)
        /\ stats.counts.completed_this_week <= stats.counts.completed_this_month
        /\ stats.counts.completed_this_month <= stats.counts.completed

\* Statistics of three parsed tasks, completed within the week, within the
\* month and earlier.
C30_Witness ==
    /\ stats # NoStats
    /\ stats.counts.total_tasks = 3
    /\ stats.counts.completed_this_week = 1
    /\ stats.counts.completed_this_month = 2
    /\ stats.counts.completed = 3

----------------------------------------------------------------------------
(* Claims on the two maps of the index *)

\* The notes a map holds.
NotesIn(map) == {map[k] : k \in DOMAIN map} \ {NoNote}

\* C27: in every state reached by index construction, refresh() and the
\* create and append operations, every note stored under notes_by_path is
\* also stored under notes, and the two maps have the same size.
C27_TitleMapHoldsEveryIndexedNote ==
    /\ NotesIn(notes_by_path) \subseteq NotesIn(notes)
    /\ Cardinality({t \in DOMAIN notes : notes[t] # NoNote})
           = Cardinality({p \in DOMAIN notes_by_path : notes_by_path[p] # NoNote})

\* C28: from a freshly built index, after any sequence of create_note,
\* create_inbox_note and create_daily_note calls, creating or appending,
\* succeeding or raising, with no outside change to the tree, the path map
\* is the path map refresh() would build from the tree, paths and bodies.
C28_PathMapIsWhatRefreshBuilds ==
    \A order \in rglob(tree) :
        notes_by_path = build_index(tree, order, EmptyIndex).notes_by_path

\* A create_daily_note call has appended to the note that was there.
C28_Witness ==
    /\ ret.op = "create_daily_note"
    /\ ret.append
    /\ ret.raised = "none"
    /\ Len(tree[DailyPath].body) = 2

----------------------------------------------------------------------------
(* Claims on which notes a limited listing returns *)

\* The indexed notes that pass the filters of the list_notes call recorded.
ListMatching ==
    {n \in Elements(DictValues(qnotes)) :
        /\ qret.folder = NoFolder \/ startswith(n.path, qret.folder)
        /\ matches_criteria(n, qret.created_after, qret.created_before)}

\* C29: VaultIndex.list_notes with a limit smaller than the number of
\* matching notes returns limit notes, and no matching note left out was
\* created later than a returned one, whatever order the index iterates in.
C29_LimitKeepsMostRecentlyCreated ==
    (qret.op = "list_notes" /\ qret.limit < Cardinality(ListMatching)) =>
        /\ Len(qret.listed) = qret.limit
        /\ \A left \in ListMatching \ Elements(qret.listed) :
               \A i \in DOMAIN qret.listed :
                   SortKey(left) <= SortKey(qret.listed[i])

----------------------------------------------------------------------------
(* Claims on where create_note writes *)

\* What the file system makes of a path: ".." leaves the directory before it.
RECURSIVE Resolved(_, _)
Resolved(path, seen) ==
    IF path = <<>> THEN seen
    ELSE IF Head(path) = <<".", ".">>
    THEN Resolved(Tail(path),
                  IF seen = <<>> THEN <<Head(path)>>
                  ELSE SubSeq(seen, 1, Len(seen) - 1))
    ELSE Resolved(Tail(path), Append(seen, Head(path)))

Inside(path, folder) ==
    LET real == Resolved(path, <<>>)
    IN  Len(real) > Len(folder) /\ SubSeq(real, 1, Len(folder)) = folder

\* A create_note step that does what the claim allows, given the exceptions
\* a refused call may raise.
CreateStepWithin(refusals) ==
    /\ \/ ret'.raised \in refusals /\ tree'.files = tree.files
       \/ /\ ret'.raised = "none"
          /\ ret'.target \notin tree.files
          /\ tree'.files = tree.files \cup {ret'.target}
          /\ ret'.para_location \in DOMAIN para_folders
          /\ Inside(ret'.target, <<Dir(para_folders[ret'.para_location])>>)
    /\ ret'.para_location \notin allowed_locations =>
          ret'.raised = "ValueError"

\* C26 as stated: for every title, para_location and subfolder, create_note
\* either raises ValueError or FileExistsError without creating a file, or
\* creates exactly one file, inside the configured folder of para_location;
\* 'inbox' and unknown locations are always rejected.
C26_CreatesInsideOrRaisesTwo ==
    [][CreateStepWithin({"ValueError", "FileExistsError"})]_vars

\* C26 amended: the same with NotADirectoryError among the exceptions of a
\* refused call, raised when a component of the target folder is a file.
C26_CreatesInsideOrRaises ==
    [][CreateStepWithin({"ValueError", "FileExistsError", "NotADirectoryError"})]_vars

\* A note has been created two folders below the folder of its location, by
\* a call whose subfolder was given with a "/" in it.
C26_Witness ==
    /\ ret.op = "create_note"
    /\ ret.raised = "none"
    /\ Len(ret.target) = 4
    /\ ret.target \in tree.files

====
